---- MODULE Spec2Model ----
(***************************************************************************)
(* Emulator process lifecycle manager of the RexOS emulator bridge         *)
(* (src/ffi/emulator-bridge/src/emulator_bridge.c): rexos_init,            *)
(* rexos_launch and the forked child, rexos_wait in its three timeout      *)
(* modes, rexos_signal/rexos_stop/rexos_kill, rexos_get_process_info and   *)
(* the launch-config operations, over an operating-system process table.   *)
(*                                                                         *)
(* One supervising thread makes one library call at a time; the children   *)
(* it forked run concurrently with it.  A call that can block or that      *)
(* sleeps (rexos_wait) is split at its waitpid/usleep calls, and           *)
(* rexos_launch is split at fork(), so that the children interleave with   *)
(* the call.                                                               *)
(***************************************************************************)
EXTENDS Integers, FiniteSets, Sequences, TLC

(* ------------------------------- bounds -------------------------------- *)

\* Number of process identifiers the process table can hand out.
MaxPids == 1
\* Largest positive timeout_ms passed to rexos_wait.
MaxTimeout == 25
\* Largest exit code a target program exits with by itself.
MaxExit == 1
\* Number of leading args / env entries of a config whose content varies;
\* the later ones are all the same string.
MaxVaried == 1
\* Largest utime + stime (clock ticks) and rss (pages) read from /proc.
MaxTicks == 1
MaxRss == 1
\* jiffies the kernel accounts in the "cpu" line of /proc/stat
MaxJiffies == 3

(* -------------------------- program constants -------------------------- *)

REXOS_OK == 0
REXOS_ERR_INVALID_ARG == -1
REXOS_ERR_NOT_FOUND == -2
REXOS_ERR_PERMISSION == -3
REXOS_ERR_FORK_FAILED == -4
REXOS_ERR_TIMEOUT == -6
REXOS_ERR_MEMORY == -7
REXOS_ERR_IO == -8

REXOS_MAX_ARGS == 64
REXOS_MAX_ENV == 128
\* char key[256]; char value[1024]; of rexos_env_var_t
ENV_KEY_SIZE == 256
ENV_VALUE_SIZE == 1024

\* int max_args = 32 + config->arg_count;
ARGV_HEADROOM == 32
\* char slot_str[8];
SLOT_STR_SIZE == 8
\* usleep(10000); elapsed += 10
POLL_INTERVAL_MS == 10
\* _exit(127) of the child whose execvp returned
EXEC_FAILED_STATUS == 127
\* sysconf(_SC_CLK_TCK) and sysconf(_SC_PAGESIZE) of the platform
CLK_TCK == 100
PAGE_SIZE == 4096

ExitCodes == 0..MaxExit
\* timeout_ms arguments: blocking (negative), one poll (0), timed (positive)
Timeouts == {-2, -1, 0, 1, POLL_INTERVAL_MS, MaxTimeout}

(* ------------------------------ file system ---------------------------- *)

\* Executable paths a config can carry ("" is executable[0] == '\0').
Paths == {"", "/bin/retroarch", "/etc/hosts", "/tmp", "/bin/missing"}

\* What a path resolves to.
FileKind(path) ==
    CASE path = "/bin/retroarch" -> "exec_file"
      [] path = "/etc/hosts"     -> "plain_file"
      [] path = "/tmp"           -> "directory"
      [] OTHER                   -> "absent"

\* access(path, X_OK) == 0: execute permission on a regular file, search
\* permission on a directory.
access_X_OK(path) == FileKind(path) \in {"exec_file", "directory"}

\* Outcomes execvp of the path can have (TRUE: the image is replaced).  Only a
\* regular executable file can replace the image, and even that can fail
\* (ENOEXEC, ENOMEM, the file removed since the access check).
ExecOutcomes(path) ==
    IF FileKind(path) = "exec_file" THEN {TRUE, FALSE} ELSE {FALSE}

(* -------------------------------- state -------------------------------- *)

VARIABLES
    g_initialized,  \* static bool g_initialized
    sigchld,        \* disposition of SIGCHLD in the supervisor: "default" | "nocldwait"
    proc,           \* the process table, by pid
    pc,             \* where the supervising thread is
    frame,          \* locals of the call in progress
    res,            \* what the call that just completed returned
    config,         \* the caller's rexos_launch_config_t
    cur,            \* the supervising thread that is running
    saved,          \* pc, frame and res of the supervising thread that is not
    child,          \* the child branch of rexos_launch, by pid: position, calls made
    prev,           \* static uint64_t prev_user .. prev_softirq
    cpu,            \* the counters of the "cpu" line of /proc/stat
    sampled,        \* ghost: calculate_cpu_usage has stored a sample in prev
    taken,          \* ghost: the readings of the "cpu" line taken so far
    raced,          \* ghost: two calculate_cpu_usage calls have overlapped
    g_hotkey_mutex,     \* static pthread_mutex_t: 0, or the thread that holds it
    g_hotkey_callback,  \* static rexos_hotkey_callback_t g_hotkey_callback
    g_input_state,      \* static g_input_state: the modifier, the buttons held
    hk              \* where each thread is in the hotkey code, by thread

\* The process identifiers the system hands out: those of the process table.
Pids == DOMAIN proc
\* pid arguments a caller passes: non-positive ones and process identifiers
PidArgs == {-1, 0} \cup Pids

\* What the process interface and the launch config leave alone.
\* The samples noted of calculate_cpu_usage; the statics of
\* retroarch_hook.c and the threads in its code.
sampleVars == <<taken, raced>>
hookVars == <<g_hotkey_mutex, g_hotkey_callback, g_input_state, hk>>

auxVars == <<cur, saved, child, prev, cpu, sampled,
             taken, raced, g_hotkey_mutex, g_hotkey_callback, g_input_state, hk>>

vars == <<g_initialized, sigchld, proc, pc, frame, res, config,
          cur, saved, child, prev, cpu, sampled,
          taken, raced, g_hotkey_mutex, g_hotkey_callback, g_input_state, hk>>

\* An entry of the process table.  st: "none" (the identifier was never
\* used), "forked" (the child branch of rexos_launch), "image" (the target
\* program), "zombie", "reaped" (no entry any more).  raw: the state letter
\* of /proc/[pid]/stat of a living process.  pend: signals generated for the
\* process and not delivered yet.  deadSeen (ghost): rexos_get_process_info
\* has reported REXOS_PROC_DEAD for this identifier after a launch of it.
NoProc ==
    [st |-> "none", exe |-> "", tkind |-> "none", tcode |-> 0,
     execFailed |-> FALSE, okSeen |-> FALSE,
     raw |-> "-", pend |-> {}, deadSeen |-> FALSE]

NoFrame == [op |-> "none"]
NoRes == [op |-> "none"]

Alive == {"forked", "image"}

\* Identifiers fork() can hand out: those with no entry in the table.  The
\* kernel reuses the identifier of a reaped process.
FreePids(procs) == {p \in Pids : procs[p].st \in {"none", "reaped"}}

\* Ghost: the number of table entries a step of rexos_launch created.
Created(before, after) ==
    Cardinality({p \in Pids : before[p].st \notin Alive /\ after[p].st \in Alive})

\* C strings.  LongKey and LongValue stand for a key of ENV_KEY_SIZE and a
\* value of ENV_VALUE_SIZE characters, which do not fit rexos_env_var_t;
\* CutKey and CutValue for what is left of them without the last character.
\* NULL is no string.
NULL == "(null)"
LongKey == "K...K"
CutKey == "K..."
LongValue == "V...V"
CutValue == "V..."

StrLen(str) ==
    CASE str = LongKey -> ENV_KEY_SIZE
      [] str = CutKey -> ENV_KEY_SIZE - 1
      [] str = LongValue -> ENV_VALUE_SIZE
      [] str = CutValue -> ENV_VALUE_SIZE - 1
      [] str = "" -> 0
      [] str = "-v" -> 2
      [] str = "HOME" -> 4
      [] str = "/root" -> 5

\* The first n characters of a string longer than n.
Prefix(str, n) ==
    CASE str = LongKey /\ n = ENV_KEY_SIZE - 1 -> CutKey
      [] str = LongValue /\ n = ENV_VALUE_SIZE - 1 -> CutValue

\* strncpy(dst, src, n) into a zeroed dst of n + 1 bytes: at most n
\* characters of src, and the terminating zero already there.
StrNCpy(src, n) == IF StrLen(src) > n THEN Prefix(src, n) ELSE src

\* Mutant: the default save-state slot is slot 0.
ConfigDefaultsSlotZero ==
    [type |-> "REXOS_EMU_RETROARCH", executable |-> "", rom_path |-> "",
     core_path |-> "", config_path |-> "",
     fullscreen |-> TRUE, verbose |-> FALSE,
     use_32bit |-> FALSE, load_state_slot |-> 0, cpu_affinity |-> -1,
     nice_value |-> 0, realtime_priority |-> FALSE,
     arg_count |-> 0, args |-> <<>>, env_count |-> 0, env |-> <<>>]

\* rexos_launch_config_init: memset(config, 0, sizeof(*config)) and the
\* defaults.  args and env hold the stored entries, in order; a path of ""
\* is a buffer whose first byte is zero.
ConfigDefaults ==
    [type |-> "REXOS_EMU_RETROARCH", executable |-> "", rom_path |-> "",
     core_path |-> "", config_path |-> "",
     fullscreen |-> TRUE, verbose |-> FALSE,
     use_32bit |-> FALSE, load_state_slot |-> -1, cpu_affinity |-> -1,
     nice_value |-> 0, realtime_priority |-> FALSE,
     arg_count |-> 0, args |-> <<>>, env_count |-> 0, env |-> <<>>]

\* The fields of the "cpu" line that calculate_cpu_usage reads.
CpuFields == {"user", "nice", "system", "idle", "iowait", "irq", "softirq"}

\* The threads of the supervisor.
ThreadIds == {1, 2}

\* A thread that is not in the hotkey code.  code, action: the button of
\* the event being handled and the hotkey it maps to; newcb: the callback
\* being registered; inside: the registration is made by the callback;
\* nested: the callback that runs has registered.
NoHotkeyCall ==
    [pc |-> "idle", code |-> "none", action |-> "none", newcb |-> "(null)",
     inside |-> FALSE, nested |-> FALSE]

\* One supervising thread that has made no call, no child, the statics of
\* performance.c and retroarch_hook.c as initialised, a system that has
\* just booted.
AuxInit ==
    /\ cur = 1
    /\ saved = [pc |-> "idle", frame |-> NoFrame, res |-> NoRes]
    /\ child = [p \in 1..MaxPids |-> [pc |-> "nice", i |-> 0, calls |-> <<>>]]
    /\ prev = [f \in CpuFields |-> 0]
    /\ cpu = [f \in CpuFields |-> 0]
    /\ sampled = FALSE
    /\ taken = {[f \in CpuFields |-> 0]}
    /\ raced = FALSE
    /\ g_hotkey_mutex = 0
    /\ g_hotkey_callback = NULL
    /\ g_input_state = [modifier_pressed |-> FALSE, buttons |-> {}]
    /\ hk = [t \in ThreadIds |-> NoHotkeyCall]

Init ==
    /\ g_initialized = FALSE
    /\ sigchld = "default"
    /\ proc = [p \in 1..MaxPids |-> NoProc]
    /\ pc = "idle"
    /\ frame = NoFrame
    /\ res = NoRes
    /\ config = ConfigDefaults
    /\ AuxInit

(* --------------------------- rexos_init/cleanup ------------------------ *)

\* sigaction(SIGCHLD, {SIG_IGN, SA_NOCLDWAIT}): done once per initialisation.
InitDisposition(initialized, disp) ==
    IF initialized THEN disp ELSE "nocldwait"

rexos_init ==
    /\ pc = "idle"
    /\ sigchld' = InitDisposition(g_initialized, sigchld)
    /\ g_initialized' = TRUE
    /\ res' = [op |-> "init", err |-> REXOS_OK]
    /\ UNCHANGED auxVars
    /\ UNCHANGED <<config, proc, pc, frame>>

rexos_cleanup ==
    /\ pc = "idle"
    /\ g_initialized' = FALSE
    /\ res' = [op |-> "cleanup", err |-> REXOS_OK]
    /\ UNCHANGED auxVars
    /\ UNCHANGED <<config, sigchld, proc, pc, frame>>

(* ------------------------------ termination ---------------------------- *)

\* A terminating child stays in the table as a zombie until waited for,
\* unless the parent set SIGCHLD to SIG_IGN/SA_NOCLDWAIT: then it is reaped
\* at once and its status is discarded.
Terminate(p, kind, code, disp) ==
    [p EXCEPT !.st = IF disp = "nocldwait" THEN "reaped" ELSE "zombie",
              !.tkind = kind, !.tcode = code, !.raw = "-", !.pend = {}]

\* Ghost: the elapsed value of a rexos_wait in progress on child c when c
\* terminates.
NoteDeath(f, c) ==
    IF f.op = "wait" /\ f.pid = c /\ f.deadAt = -1
    THEN [f EXCEPT !.deadAt = f.elapsed]
    ELSE f

(* ------------------------------ build_argv ----------------------------- *)

\* rexos_emulator_type_t
EmulatorTypes ==
    {"REXOS_EMU_RETROARCH", "REXOS_EMU_STANDALONE", "REXOS_EMU_PPSSPP",
     "REXOS_EMU_DRASTIC", "REXOS_EMU_CUSTOM"}

\* Save-state slots a caller sets: none (-1), small ones, the largest whose
\* decimal digits fit slot_str, and the smallest whose digits do not.
Slots == {-1, 0, 3, 10^(SLOT_STR_SIZE - 1) - 1, 10^(SLOT_STR_SIZE - 1)}

\* Extra arguments stored by rexos_launch_config_add_arg.
ExtraArgs == {<<>>, <<"-v">>, <<"--menu", "-v">>}

\* Configs a caller has filled in before a launch.
ArgvConfigs ==
    {[ConfigDefaults EXCEPT !.type = t, !.executable = "/bin/retroarch",
                            !.core_path = core, !.config_path = cfgp,
                            !.fullscreen = fs, !.verbose = vb,
                            !.load_state_slot = slot, !.args = extra,
                            !.arg_count = Len(extra), !.rom_path = rom] :
        t \in EmulatorTypes, core \in {"", "/cores/snes.so"},
        cfgp \in {"", "/etc/ra.cfg"}, fs \in BOOLEAN, vb \in BOOLEAN,
        slot \in Slots, extra \in ExtraArgs, rom \in {"", "/roms/game.sfc"}}

DigitChar(d) ==
    CASE d = 0 -> "0" [] d = 1 -> "1" [] d = 2 -> "2" [] d = 3 -> "3"
      [] d = 4 -> "4" [] d = 5 -> "5" [] d = 6 -> "6" [] d = 7 -> "7"
      [] d = 8 -> "8" [] d = 9 -> "9"

\* The characters "%d" produces for n >= 0.
RECURSIVE FormatD(_)
FormatD(n) ==
    IF n < 10 THEN DigitChar(n) ELSE FormatD(n \div 10) \o DigitChar(n % 10)

\* snprintf(str, size, "%d", n) for n >= 0: at most size - 1 characters of
\* the output, then the terminating zero.
snprintf(size, n) ==
    LET out == FormatD(n) IN
    IF Len(out) > size - 1 THEN SubSeq(out, 1, size - 1) ELSE out

\* The strings the RetroArch branch of build_argv duplicates, in order.
RetroArchArgs(cfg) ==
    (IF cfg.core_path # "" THEN <<"-L", cfg.core_path>> ELSE <<>>)
    \o (IF cfg.config_path # "" THEN <<"--config", cfg.config_path>> ELSE <<>>)
    \o (IF cfg.fullscreen THEN <<"--fullscreen">> ELSE <<>>)
    \o (IF cfg.verbose THEN <<"-v">> ELSE <<>>)
    \o (IF cfg.load_state_slot >= 0
        THEN <<"-e", snprintf(SLOT_STR_SIZE, cfg.load_state_slot)>>
        ELSE <<>>)

\* Mutant: the RetroArch arguments are added for every emulator type.
EmulatorArgsAnyType(cfg) == RetroArchArgs(cfg)

\* if (config->type == REXOS_EMU_RETROARCH) { ... }
EmulatorArgs(cfg) ==
    IF cfg.type = "REXOS_EMU_RETROARCH" THEN RetroArchArgs(cfg) ELSE <<>>

\* for (i = 0; i < config->arg_count && argc < max_args - 2; i++)
\*     argv[argc++] = strdup(config->args[i]);
\* strs holds what was put in argv so far, so that argc is Len(strs).
RECURSIVE CustomArgs(_, _, _, _)
CustomArgs(cfg, i, strs, max_args) ==
    IF i < cfg.arg_count /\ Len(strs) < max_args - 2
    THEN CustomArgs(cfg, i + 1, Append(strs, cfg.args[i + 1]), max_args)
    ELSE strs

\* Mutant: the array is sized for the extra arguments alone.
ArgvStringsNoHeadroom(cfg) ==
    LET max_args == cfg.arg_count
        head == <<cfg.executable>> \o EmulatorArgs(cfg)
    IN  CustomArgs(cfg, 0, head, max_args)
        \o (IF cfg.rom_path # "" THEN <<cfg.rom_path>> ELSE <<>>)

\* The strings build_argv passes to strdup, in order.
ArgvStrings(cfg) ==
    LET max_args == ARGV_HEADROOM + cfg.arg_count
        head == <<cfg.executable>> \o EmulatorArgs(cfg)
    IN  CustomArgs(cfg, 0, head, max_args)
        \o (IF cfg.rom_path # "" THEN <<cfg.rom_path>> ELSE <<>>)

\* What the allocations of build_argv do: callocOk says that the calloc of
\* the array succeeded, failed is the number of the strdup that returned
\* NULL (0: none did).
AllocOk == [callocOk |-> TRUE, failed |-> 0]
CallocFailed == [callocOk |-> FALSE, failed |-> 0]
MemOutcomes(cfg) ==
    {CallocFailed} \cup
    {[callocOk |-> TRUE, failed |-> k] : k \in 0..Len(ArgvStrings(cfg))}

\* build_argv: null when calloc failed; otherwise the array up to its
\* terminator, where a failed strdup left NULL (its result is not tested).
\* max_args is the number of entries allocated and argc the index at which
\* argv[argc] = NULL is written.
build_argv(cfg, mem) ==
    IF ~mem.callocOk
    THEN [null |-> TRUE, argv |-> <<>>,
          max_args |-> ARGV_HEADROOM + cfg.arg_count, argc |-> 0]
    ELSE LET strs == ArgvStrings(cfg) IN
         [null |-> FALSE,
          argv |-> [k \in 1..Len(strs) |->
                      IF mem.failed = k THEN NULL ELSE strs[k]],
          max_args |-> ARGV_HEADROOM + cfg.arg_count,
          argc |-> Len(strs)]

\* The entries of an argument vector before its first null pointer: what
\* execvp is given, and what free_argv frees.
RECURSIVE ExecVector(_)
ExecVector(argv) ==
    IF argv = <<>> \/ Head(argv) = NULL THEN <<>>
    ELSE <<Head(argv)>> \o ExecVector(Tail(argv))

\* free_argv: for (i = 0; argv[i]; i++) free(argv[i]); free(argv).  The
\* result is the number of strings still allocated afterwards: those stored
\* behind a null pointer that a failed strdup left.
free_argv(argv) ==
    Cardinality({k \in 1..Len(argv) :
                    k > Len(ExecVector(argv)) /\ argv[k] # NULL})

(* ------------------------------ rexos_launch --------------------------- *)

\* The argument checks and the access() check, in the order of the code.
LaunchCheck(cfgPresent, pidPtr, exe) ==
    IF ~cfgPresent \/ ~pidPtr THEN REXOS_ERR_INVALID_ARG
    ELSE IF exe = "" THEN REXOS_ERR_INVALID_ARG
    ELSE IF ~access_X_OK(exe) THEN REXOS_ERR_NOT_FOUND
    ELSE REXOS_OK

\* fork(): one new entry in the process table, a copy of the caller that is
\* about to run the child branch for this executable.
Fork(procs, child_pid, exe) ==
    [procs EXCEPT ![child_pid] =
        [NoProc EXCEPT !.st = "forked", !.exe = exe, !.raw = "R",
                       !.deadSeen = procs[child_pid].deadSeen]]

\* Mutant: the test of fork()'s result inverted.
ForkFailedInverted(child_pid) == child_pid > 0

\* if (child_pid < 0): the parent's test of what fork() returned.
ForkFailed(child_pid) == child_pid < 0

\* A return of rexos_launch before or at fork(): *pid is not written.
\* created: the number of children the call made.
LaunchError(err, cfgPresent, pidPtr, exe, created) ==
    [op |-> "launch", err |-> err, cfgPresent |-> cfgPresent, pidPtr |-> pidPtr,
     exe |-> exe, pid_written |-> FALSE, pid_value |-> 0, created |-> created,
     childSt |-> "none"]

\* The config a launch is given: the defaults and an executable.
LaunchConfig(exe) == [ConfigDefaults EXCEPT !.executable = exe]

\* What the allocations of build_argv can do in a launch; with strdupFails
\* FALSE only the outcomes in which every strdup succeeds.
LaunchMem(exe, strdupFails) ==
    IF strdupFails THEN MemOutcomes(LaunchConfig(exe))
    ELSE {AllocOk, CallocFailed}

\* rexos_launch up to and including fork().  mem: what the allocations of
\* build_argv did.  child_pid: what fork() returns to the parent, a free
\* identifier or -1 (it can only fail when the table is full).  The child
\* will call execvp(argv[0], argv).  Ghosts of the result: mem, and leaked,
\* the number of strings of argv the call left allocated.
LaunchCallIn(strdupFails) ==
    /\ pc = "idle"
    /\ \E cfgPresent \in BOOLEAN, pidPtr \in BOOLEAN :
       \E exe \in (IF cfgPresent THEN Paths ELSE {""}) :
       \E mem \in LaunchMem(exe, strdupFails) :
       \E child_pid \in FreePids(proc) \cup {-1} :
         LET err == LaunchCheck(cfgPresent, pidPtr, exe)
             built == build_argv(LaunchConfig(exe), mem)
         IN
         IF err # REXOS_OK
         THEN /\ proc' = proc
              /\ res' = LaunchError(err, cfgPresent, pidPtr, exe,
                                    Created(proc, proc'))
              /\ UNCHANGED <<pc, frame>>
         ELSE IF built.null
         THEN /\ proc' = proc
              /\ res' = [mem |-> mem, leaked |-> 0] @@
                        LaunchError(REXOS_ERR_MEMORY, cfgPresent, pidPtr, exe,
                                    Created(proc, proc'))
              /\ UNCHANGED <<pc, frame>>
         ELSE /\ proc' = IF child_pid \in Pids
                         THEN Fork(proc, child_pid, Head(built.argv))
                         ELSE proc
              /\ IF ForkFailed(child_pid)
                 THEN /\ res' = [mem |-> mem,
                                 leaked |-> free_argv(built.argv)] @@
                                LaunchError(REXOS_ERR_FORK_FAILED, cfgPresent,
                                            pidPtr, exe, Created(proc, proc'))
                      /\ UNCHANGED <<pc, frame>>
                 ELSE /\ pc' = "launch_forked"
                      /\ frame' = [op |-> "launch", exe |-> exe,
                                   created |-> Created(proc, proc'),
                                   child_pid |-> child_pid,
                                   mem |-> mem, argv |-> built.argv]
                      /\ res' = NoRes
    /\ UNCHANGED auxVars
    /\ UNCHANGED <<config, g_initialized, sigchld>>

\* rexos_launch called while memory for the strings of argv is available.
LaunchCall == LaunchCallIn(FALSE)

\* rexos_launch called in any state of the heap.
LaunchCallAnyMem == LaunchCallIn(TRUE)

\* The parent after fork(): free_argv(argv); *pid = child_pid; return REXOS_OK.
LaunchReturn ==
    /\ pc = "launch_forked"
    /\ res' = [op |-> "launch", err |-> REXOS_OK, cfgPresent |-> TRUE,
               pidPtr |-> TRUE, exe |-> frame.exe, pid_written |-> TRUE,
               pid_value |-> frame.child_pid,
               created |-> frame.created,
               childSt |-> IF frame.child_pid \in Pids
                           THEN proc[frame.child_pid].st ELSE "none",
               mem |-> frame.mem, leaked |-> free_argv(frame.argv)]
    /\ pc' = "idle"
    /\ frame' = NoFrame
    /\ UNCHANGED auxVars
    /\ UNCHANGED <<config, g_initialized, sigchld, proc>>

(* ------------------------------- the child ----------------------------- *)

\* execvp succeeded: the process now runs the target program.
ExecReplaced(p) == [p EXCEPT !.st = "image", !.exe = ""]

\* Mutant: no _exit after a failed execvp; the child runs on as a copy of
\* the caller, past the child branch.
ExecFailedFallsThrough(p, disp) == [p EXCEPT !.execFailed = TRUE]

\* execvp returned: fprintf(stderr, ...); _exit(127).
ExecFailed(p, disp) ==
    Terminate([p EXCEPT !.execFailed = TRUE, !.exe = ""], "exited",
              EXEC_FAILED_STATUS, disp)

\* The child branch of rexos_launch: the single execvp attempt.
ChildExec(c) ==
    /\ proc[c].st = "forked"
    /\ ~proc[c].execFailed
    /\ \E ok \in ExecOutcomes(proc[c].exe) :
         LET p == IF ok THEN ExecReplaced(proc[c]) ELSE ExecFailed(proc[c], sigchld) IN
         /\ proc' = [proc EXCEPT ![c] = p]
         /\ frame' = IF p.st \in Alive THEN frame ELSE NoteDeath(frame, c)
    /\ UNCHANGED auxVars
    /\ UNCHANGED <<config, g_initialized, sigchld, pc, res>>

\* The target program exits by itself.
ChildExit(c) ==
    /\ proc[c].st = "image"
    /\ \E code \in ExitCodes :
         proc' = [proc EXCEPT ![c] = Terminate(@, "exited", code, sigchld)]
    /\ frame' = NoteDeath(frame, c)
    /\ UNCHANGED auxVars
    /\ UNCHANGED <<config, g_initialized, sigchld, pc, res>>

\* The child is terminated by a signal.
ChildKilled(c) ==
    /\ proc[c].st \in Alive
    /\ proc' = [proc EXCEPT ![c] = Terminate([@ EXCEPT !.exe = ""], "signaled",
                                              0, sigchld)]
    /\ frame' = NoteDeath(frame, c)
    /\ UNCHANGED auxVars
    /\ UNCHANGED <<config, g_initialized, sigchld, pc, res>>

\* The scheduler moves a living, not stopped process between running (R),
\* interruptible sleep (S) and uninterruptible sleep (D); a sleeper has to
\* run to change its kind of sleep.
SchedNext(raw) ==
    CASE raw = "R" -> {"S", "D"}
      [] raw = "S" -> {"R"}
      [] raw = "D" -> {"R"}
      [] OTHER     -> {}

ChildSched(c) ==
    /\ proc[c].st \in Alive
    /\ \E r \in SchedNext(proc[c].raw) : proc' = [proc EXCEPT ![c].raw = r]
    /\ UNCHANGED auxVars
    /\ UNCHANGED <<config, g_initialized, sigchld, pc, frame, res>>

(* -------------------------------- signals ------------------------------ *)

\* Signals a caller sends, and sig arguments: these, the null signal 0 and a
\* number that is no signal.
Signals == {"SIGTERM", "SIGKILL", "SIGSTOP", "SIGCONT"}
SigArgs == Signals \cup {"0", "invalid"}

\* A process of another user, which the caller may not signal.
ForeignPid == Cardinality(Pids) + 1
SigPidArgs == PidArgs \cup {ForeignPid}

\* kill(pid, sig): "OK" or the errno it sets.  A zombie still has an entry
\* and accepts signals; a reaped or never used identifier has none.
KillErrno(procs, pid, sig) ==
    IF sig \notin Signals \cup {"0"} THEN "EINVAL"
    ELSE IF pid = ForeignPid THEN "EPERM"
    ELSE IF pid \in Pids /\ procs[pid].st \in Alive \cup {"zombie"} THEN "OK"
    ELSE "ESRCH"

\* What generating sig does to the entry of a living process: SIGCONT
\* resumes a stopped process at once and cancels a pending stop, the others
\* become pending, the null signal does nothing.
Generate(p, sig) ==
    IF p.st \notin Alive THEN p
    ELSE IF sig = "SIGCONT"
    THEN [p EXCEPT !.raw = IF @ = "T" THEN "R" ELSE @,
                   !.pend = @ \ {"SIGSTOP"}]
    ELSE IF sig \in Signals THEN [p EXCEPT !.pend = @ \cup {sig}]
    ELSE p

\* Mutant: the signal is sent to every process the caller may signal, as
\* kill(-1, sig) does.
KillEveryProcess(procs, pid, sig) ==
    IF KillErrno(procs, pid, sig) = "OK"
    THEN [p \in DOMAIN procs |-> Generate(procs[p], sig)]
    ELSE procs

\* The kernel's side of kill(): the table after the call.
Kill(procs, pid, sig) ==
    IF KillErrno(procs, pid, sig) = "OK"
    THEN [procs EXCEPT ![pid] = Generate(@, sig)]
    ELSE procs

\* Mutant: EPERM is not told apart from the other failures.
SignalErrorNoPermission(errno) ==
    IF errno = "OK" THEN REXOS_OK
    ELSE IF errno = "ESRCH" THEN REXOS_ERR_NOT_FOUND
    ELSE REXOS_ERR_IO

\* rexos_signal's translation of kill()'s outcome.
SignalError(errno) ==
    IF errno = "OK" THEN REXOS_OK
    ELSE IF errno = "ESRCH" THEN REXOS_ERR_NOT_FOUND
    ELSE IF errno = "EPERM" THEN REXOS_ERR_PERMISSION
    ELSE REXOS_ERR_IO

\* Mutant: only negative pids are rejected.
SignalPidInvalidNegative(pid) == pid < 0

\* if (pid <= 0) return REXOS_ERR_INVALID_ARG;
SignalPidInvalid(pid) == pid <= 0

\* The body of rexos_signal, which returns without waiting for anything.
\* via: the entry point called.  errno, stBefore, stAfter, rawBefore: ghosts,
\* what kill() said and the target's entry around the call.
SignalCall(via, pid, sig) ==
    LET known == pid \in Pids
        errno == IF SignalPidInvalid(pid) THEN "none"
                 ELSE KillErrno(proc, pid, sig) IN
    /\ pc = "idle"
    /\ proc' = IF SignalPidInvalid(pid) THEN proc ELSE Kill(proc, pid, sig)
    /\ res' = [op |-> "signal", via |-> via, pid |-> pid, sig |-> sig,
               errno |-> errno,
               err |-> IF SignalPidInvalid(pid) THEN REXOS_ERR_INVALID_ARG
                       ELSE SignalError(errno),
               stBefore |-> IF known THEN proc[pid].st ELSE "none",
               rawBefore |-> IF known THEN proc[pid].raw ELSE "-",
               stAfter |-> IF known THEN proc'[pid].st ELSE "none"]
    /\ UNCHANGED auxVars
    /\ UNCHANGED <<config, g_initialized, sigchld, pc, frame>>

rexos_signal == \E pid \in SigPidArgs, sig \in SigArgs : SignalCall("signal", pid, sig)

\* return rexos_signal(pid, SIGTERM);
StopSignal == "SIGTERM"

rexos_stop == \E pid \in SigPidArgs : SignalCall("stop", pid, StopSignal)

\* Mutant: rexos_kill sends SIGTERM.
KillSignalIsTerm == "SIGTERM"

\* return rexos_signal(pid, SIGKILL);
KillSignal == "SIGKILL"

rexos_kill == \E pid \in SigPidArgs : SignalCall("kill", pid, KillSignal)

\* Delivery of a pending SIGKILL: it cannot be caught, blocked or ignored
\* and ends a stopped process too.
DeliverKill(c) ==
    /\ proc[c].st \in Alive
    /\ "SIGKILL" \in proc[c].pend
    /\ proc' = [proc EXCEPT ![c] = Terminate([@ EXCEPT !.exe = ""], "signaled",
                                              0, sigchld)]
    /\ frame' = NoteDeath(frame, c)
    /\ UNCHANGED auxVars
    /\ UNCHANGED <<config, g_initialized, sigchld, pc, res>>

\* Delivery of a pending SIGTERM to a process that is not stopped: the
\* process dies of it, or it catches or ignores it and runs on.
DeliverTerm(c) ==
    /\ proc[c].st \in Alive
    /\ proc[c].raw # "T"
    /\ "SIGTERM" \in proc[c].pend
    /\ \E caught \in BOOLEAN :
         IF caught
         THEN /\ proc' = [proc EXCEPT ![c].pend = @ \ {"SIGTERM"}]
              /\ UNCHANGED frame
         ELSE /\ proc' = [proc EXCEPT ![c] = Terminate([@ EXCEPT !.exe = ""],
                                                       "signaled", 0, sigchld)]
              /\ frame' = NoteDeath(frame, c)
    /\ UNCHANGED auxVars
    /\ UNCHANGED <<config, g_initialized, sigchld, pc, res>>

\* Delivery of a pending SIGSTOP: the process is stopped.
DeliverStop(c) ==
    /\ proc[c].st \in Alive
    /\ "SIGSTOP" \in proc[c].pend
    /\ proc' = [proc EXCEPT ![c].raw = "T", ![c].pend = @ \ {"SIGSTOP"}]
    /\ UNCHANGED auxVars
    /\ UNCHANGED <<config, g_initialized, sigchld, pc, frame, res>>

(* -------------------------------- waitpid ------------------------------ *)

\* pid names a child of the caller that has not been reaped.
IsChild(pid) == pid \in Pids /\ proc[pid].st \in (Alive \cup {"zombie"})

\* Its return value: pid for a zombie, 0 for a living child, -1 for ECHILD.
WaitpidResult(pid) ==
    IF ~IsChild(pid) THEN -1
    ELSE IF proc[pid].st = "zombie" THEN pid
    ELSE 0

\* Mutant: a waitpid without WNOHANG never returns.
WaitpidReadyOnlyNoHang(pid, nohang) == nohang

\* waitpid(pid, &status, options) returns now: always with WNOHANG, else once
\* the child is no longer alive (or pid is no child: ECHILD).
WaitpidReady(pid, nohang) ==
    nohang \/ ~IsChild(pid) \/ proc[pid].st = "zombie"

\* Mutant: the zombie is reported and left in the table (as with WNOWAIT).
ReapKeepsZombie(procs, pid, result) ==
    IF result = pid THEN [procs EXCEPT ![pid].okSeen = TRUE] ELSE procs

\* waitpid removes the zombie it reports; okSeen notes that rexos_wait
\* returned REXOS_OK for it.
Reap(procs, pid, result) ==
    IF result = pid
    THEN [procs EXCEPT ![pid].st = "reaped", ![pid].okSeen = TRUE]
    ELSE procs

(* ------------------------------ rexos_wait ----------------------------- *)

\* Mutant: pid 0 passes the argument check.
WaitPidInvalidNegative(pid) == pid < 0

\* if (pid <= 0) return REXOS_ERR_INVALID_ARG;
WaitPidInvalid(pid) == pid <= 0

\* What the polling loop does with waitpid's result.
PollOutcome(r, pid) ==
    IF r = pid THEN "ok" ELSE IF r < 0 THEN "io" ELSE "sleep"

\* What the code after the loop returns for waitpid's result.
FinalOutcome(r, pid, nohang) ==
    IF r = pid THEN REXOS_OK
    ELSE IF r = 0 /\ nohang THEN REXOS_ERR_TIMEOUT
    ELSE REXOS_ERR_IO

\* Mutant: options stays 0 for timeout_ms == 0.
WaitOptionsAlwaysBlock(timeout_ms) == FALSE

\* Mutant: WNOHANG for every timeout_ms <= 0.
WaitOptionsNoHangNonPositive(timeout_ms) == timeout_ms <= 0

\* options = WNOHANG exactly for timeout_ms == 0.
WaitOptionsNoHang(timeout_ms) == timeout_ms = 0

\* Mutant: the loop test off by one.
LoopContinuesInclusive(elapsed, timeout_ms) == elapsed <= timeout_ms

\* while (elapsed < timeout_ms)
LoopContinues(elapsed, timeout_ms) == elapsed < timeout_ms

\* if (exit_code && WIFEXITED(status)) *exit_code = WEXITSTATUS(status);
StoreExit(f, p) ==
    IF f.has_out /\ p.tkind = "exited"
    THEN [f EXCEPT !.out_written = TRUE, !.out_value = p.tcode]
    ELSE f

\* The call's locals at entry; out_value is what the caller's variable holds.
\* after (ghost): the call follows a successful rexos_stop ("stop") or
\* rexos_kill ("kill") of the same pid, sent to a living, not stopped child.
WaitFrame(pid, t, has_out, prior) ==
    [op |-> "wait", pid |-> pid, timeout_ms |-> t, has_out |-> has_out,
     out_written |-> FALSE, out_value |-> prior,
     elapsed |-> 0, polls |-> 0, sleeps |-> 0, lastPoll |-> 0,
     deadAt |-> IF pid \in Pids /\ proc[pid].tkind # "none" THEN 0 ELSE -1,
     prevOK |-> pid \in Pids /\ proc[pid].okSeen,
     after |-> IF res.op = "signal" /\ res.err = REXOS_OK /\ res.pid = pid
                  /\ res.via # "signal" /\ res.stBefore \in Alive
                  /\ res.rawBefore # "T"
               THEN res.via ELSE "none",
     err |-> REXOS_OK, stAtReturn |-> "none"]

\* The record a return of rexos_wait leaves: the locals, the error code and
\* the state the process was in when the call returned.
WaitResult(f, err) ==
    [f EXCEPT !.err = err,
              !.stAtReturn = IF f.pid \in Pids THEN proc[f.pid].st ELSE "none"]

\* rexos_wait up to its first waitpid, for a pid drawn from Ps and a
\* timeout_ms drawn from Ts.
WaitCallOf(Ps, Ts) ==
    /\ pc = "idle"
    /\ \E pid \in Ps, t \in Ts, has_out \in BOOLEAN :
       \E prior \in (IF has_out THEN ExitCodes ELSE {0}) :
         LET f == WaitFrame(pid, t, has_out, prior) IN
         IF WaitPidInvalid(pid)
         THEN /\ res' = WaitResult(f, REXOS_ERR_INVALID_ARG)
              /\ UNCHANGED <<pc, frame>>
         ELSE /\ frame' = f
              /\ pc' = IF t > 0 THEN "wait_poll" ELSE "wait_final"
              /\ res' = NoRes
    /\ UNCHANGED auxVars
    /\ UNCHANGED <<config, g_initialized, sigchld, proc>>

\* rexos_wait for a timeout_ms drawn from Ts.
WaitCallIn(Ts) == WaitCallOf(PidArgs, Ts)

WaitCall == WaitCallIn(Timeouts)

\* The calls that block: timeout_ms < 0.
WaitCallBlocking == WaitCallIn({t \in Timeouts : t < 0})

\* One iteration of the polling loop up to its usleep.
WaitPoll ==
    /\ pc = "wait_poll"
    /\ LET r == WaitpidResult(frame.pid)
           f == [frame EXCEPT !.polls = @ + 1, !.lastPoll = r]
           o == PollOutcome(r, frame.pid) IN
       IF o = "ok"
       THEN /\ res' = WaitResult(StoreExit(f, proc[frame.pid]), REXOS_OK)
            /\ proc' = Reap(proc, frame.pid, r)
            /\ pc' = "idle"
            /\ frame' = NoFrame
       ELSE IF o = "io"
       THEN /\ res' = WaitResult(f, REXOS_ERR_IO)
            /\ pc' = "idle"
            /\ frame' = NoFrame
            /\ UNCHANGED proc
       ELSE /\ frame' = f
            /\ pc' = "wait_sleep"
            /\ UNCHANGED <<proc, res>>
    /\ UNCHANGED auxVars
    /\ UNCHANGED <<config, g_initialized, sigchld>>

\* usleep(10000); elapsed += 10; and the loop test that follows.
WaitSleep ==
    /\ pc = "wait_sleep"
    /\ LET f == [frame EXCEPT !.sleeps = @ + 1,
                              !.elapsed = @ + POLL_INTERVAL_MS] IN
       IF LoopContinues(f.elapsed, f.timeout_ms)
       THEN /\ frame' = f
            /\ pc' = "wait_poll"
            /\ UNCHANGED res
       ELSE /\ res' = WaitResult(f, REXOS_ERR_TIMEOUT)
            /\ pc' = "idle"
            /\ frame' = NoFrame
    /\ UNCHANGED auxVars
    /\ UNCHANGED <<config, g_initialized, sigchld, proc>>

\* The waitpid after the loop: the only one for timeout_ms <= 0.
WaitFinal ==
    /\ pc = "wait_final"
    /\ LET nohang == WaitOptionsNoHang(frame.timeout_ms)
           r == WaitpidResult(frame.pid)
           f == [frame EXCEPT !.polls = @ + 1, !.lastPoll = r]
           err == FinalOutcome(r, frame.pid, nohang) IN
       /\ WaitpidReady(frame.pid, nohang)
       /\ res' = WaitResult(IF err = REXOS_OK THEN StoreExit(f, proc[frame.pid])
                            ELSE f, err)
       /\ proc' = Reap(proc, frame.pid, r)
    /\ pc' = "idle"
    /\ frame' = NoFrame
    /\ UNCHANGED auxVars
    /\ UNCHANGED <<config, g_initialized, sigchld>>

(* ------------------------ rexos_get_process_info ----------------------- *)

\* rexos_proc_state_t
ProcStates == {"UNKNOWN", "RUNNING", "SLEEPING", "STOPPED", "ZOMBIE", "DEAD"}

\* /proc/[pid]/stat exists: the process has an entry in the table.
HasEntry(procs, pid) == pid \in Pids /\ procs[pid].st \in Alive \cup {"zombie"}

\* The state letter in /proc/[pid]/stat.
StatLetter(p) == IF p.st = "zombie" THEN "Z" ELSE p.raw

\* Mutant: no case for 'T'.
ParseStateNoStopped(letter) ==
    CASE letter = "R" -> "RUNNING"
      [] letter = "S" -> "SLEEPING"
      [] letter = "Z" -> "ZOMBIE"
      [] OTHER        -> "UNKNOWN"

\* switch (state)
ParseState(letter) ==
    CASE letter = "R" -> "RUNNING"
      [] letter = "S" -> "SLEEPING"
      [] letter = "T" -> "STOPPED"
      [] letter = "Z" -> "ZOMBIE"
      [] OTHER        -> "UNKNOWN"

\* info->cpu_time_ms = ((utime + stime) * 1000) / ticks_per_sec;
CpuTimeMs(ticks) == (ticks * 1000) \div CLK_TCK

\* info->memory_kb = (rss * page_size) / 1024;
MemoryKb(rss) == (rss * PAGE_SIZE) \div 1024

\* if (pid <= 0 || !info) return REXOS_ERR_INVALID_ARG;
InfoInvalid(pid, has_info) == pid <= 0 \/ ~has_info

\* memset(info, 0, sizeof(*info)); info->pid = pid;
InfoZeroed(pid) ==
    [pid |-> pid, state |-> "UNKNOWN", exit_code |-> 0, start_time |-> 0,
     cpu_time_ms |-> 0, memory_kb |-> 0]

\* Mutant: the state is left as memset wrote it.
InfoNoEntryKeepsZero(pid) == InfoZeroed(pid)

\* if (!f) { info->state = REXOS_PROC_DEAD; return REXOS_OK; }
InfoNoEntry(pid) == [InfoZeroed(pid) EXCEPT !.state = "DEAD"]

\* What one rexos_get_process_info call leaves.  written: *info was touched.
\* entry, afterLaunch, deadBefore: ghosts of the frame (see InfoFrame).
InfoResult(f, err, written, info) ==
    [op |-> "info", err |-> err, pid |-> f.pid, has_info |-> f.has_info,
     written |-> written, info |-> info, entry |-> f.entry,
     afterLaunch |-> f.afterLaunch, deadBefore |-> f.deadBefore,
     launched |-> f.launched]

\* The call's locals at entry.  entry: fopen found /proc/[pid]/stat.
\* afterLaunch: the call directly follows the successful rexos_launch of an
\* executable file that returned this pid.  launched: pid was returned by a
\* launch.  deadBefore: an earlier call reported DEAD for this launched pid.
InfoFrame(pid, has_info) ==
    [op |-> "info", pid |-> pid, has_info |-> has_info,
     entry |-> HasEntry(proc, pid),
     afterLaunch |-> res.op = "launch" /\ res.err = REXOS_OK
                       /\ res.pid_value = pid
                       /\ FileKind(res.exe) = "exec_file",
     launched |-> pid \in Pids /\ proc[pid].st # "none",
     deadBefore |-> pid \in Pids /\ proc[pid].deadSeen]

\* rexos_get_process_info up to and including fopen, for a pid drawn from Ps.
InfoCallOf(Ps) ==
    /\ pc = "idle"
    /\ \E pid \in Ps, has_info \in BOOLEAN :
         LET f == InfoFrame(pid, has_info) IN
         IF InfoInvalid(pid, has_info)
         THEN /\ res' = InfoResult(f, REXOS_ERR_INVALID_ARG, FALSE, InfoZeroed(0))
              /\ UNCHANGED <<proc, pc, frame>>
         ELSE IF ~HasEntry(proc, pid)
         THEN /\ res' = InfoResult(f, REXOS_OK, TRUE, InfoNoEntry(pid))
              /\ proc' = IF f.launched THEN [proc EXCEPT ![pid].deadSeen = TRUE]
                         ELSE proc
              /\ UNCHANGED <<pc, frame>>
         ELSE /\ frame' = f
              /\ pc' = "info_read"
              /\ res' = NoRes
              /\ UNCHANGED proc
    /\ UNCHANGED auxVars
    /\ UNCHANGED <<config, g_initialized, sigchld>>

InfoCall == InfoCallOf(PidArgs)

\* fscanf and the rest of the call.  fscanf's result is not checked: when
\* the entry has gone since fopen, the read fails and state, utime, stime
\* and rss are uninitialized, so the switch and the two computations work
\* on arbitrary values.
InfoRead ==
    /\ pc = "info_read"
    /\ \E ticks \in 0..MaxTicks, rss \in 0..MaxRss :
       \E letter \in (IF HasEntry(proc, frame.pid)
                      THEN {StatLetter(proc[frame.pid])}
                      ELSE {"R", "S", "T", "Z", "D"}) :
         res' = InfoResult(frame, REXOS_OK, TRUE,
                           [InfoZeroed(frame.pid) EXCEPT
                              !.state = ParseState(letter),
                              !.cpu_time_ms = CpuTimeMs(ticks),
                              !.memory_kb = MemoryKb(rss)])
    /\ pc' = "idle"
    /\ frame' = NoFrame
    /\ UNCHANGED auxVars
    /\ UNCHANGED <<config, g_initialized, sigchld, proc>>

(* ----------------------------- launch config -------------------------- *)

\* Strings a caller passes as an argument, an environment key and a value;
\* the long ones do not fit rexos_env_var_t, the cut ones just fit.
ArgStrings == {"-v", ""}
KeyStrings == {"HOME", CutKey, LongKey}
ValueStrings == {"/root", CutValue, LongValue}

\* What the caller passes for entry number n + 1 (NULL apart).
ArgInputs(n) == IF n < MaxVaried THEN ArgStrings ELSE {"-v"}
KeyInputs(n) == IF n < MaxVaried THEN KeyStrings ELSE {"HOME"}
ValueInputs(n) == IF n < MaxVaried THEN ValueStrings ELSE {"/root"}

\* What a config call leaves: ret is the value returned, ptrsOk says that
\* no pointer argument was NULL, memOk that no allocation failed; ghosts:
\* the counts the call found, and whether it left the config as it found it
\* (a successful add_env notes the key and the value it was given as well).
ConfigResult(op, ret, ptrsOk, memOk, before, after) ==
    [op |-> op, ret |-> ret, ptrsOk |-> ptrsOk, memOk |-> memOk,
     arg_count |-> before.arg_count, env_count |-> before.env_count,
     same |-> after = before]

rexos_launch_config_init ==
    /\ pc = "idle"
    /\ \E cfgPresent \in BOOLEAN :
         /\ config' = IF cfgPresent THEN ConfigDefaults ELSE config
         /\ res' = ConfigResult("config_init", 0, cfgPresent, TRUE, config, config')
    /\ UNCHANGED auxVars
    /\ UNCHANGED <<g_initialized, sigchld, proc, pc, frame>>

\* if (config->arg_count >= REXOS_MAX_ARGS - 1) return -1;
ArgsFull(cfg) == cfg.arg_count >= REXOS_MAX_ARGS - 1

\* Mutant: the slot of a failed strdup is counted.
StoreNullCounted(cfg) == [cfg EXCEPT !.arg_count = @ + 1]

\* config->args[config->arg_count] = strdup(arg) when strdup returns NULL:
\* the slot after the stored entries, which held NULL since the memset of
\* rexos_launch_config_init, holds NULL.
StoreNull(cfg) == cfg

\* config->args[config->arg_count] = strdup(arg); config->arg_count++;
StoreArg(cfg, arg) ==
    [cfg EXCEPT !.args = Append(@, arg), !.arg_count = @ + 1]

\* rexos_launch_config_add_arg.  strdupOk: strdup returned a copy.
rexos_launch_config_add_arg ==
    /\ pc = "idle"
    /\ \E cfgPresent \in BOOLEAN, strdupOk \in BOOLEAN :
       \E arg \in ArgInputs(config.arg_count) \cup {NULL} :
         LET ptrsOk == cfgPresent /\ arg # NULL IN
         IF ~cfgPresent \/ arg = NULL
         THEN /\ UNCHANGED config
              /\ res' = ConfigResult("add_arg", -1, ptrsOk, strdupOk,
                                     config, config')
         ELSE IF ArgsFull(config)
         THEN /\ UNCHANGED config
              /\ res' = ConfigResult("add_arg", -1, ptrsOk, strdupOk,
                                     config, config')
         ELSE IF ~strdupOk
         THEN /\ config' = StoreNull(config)
              /\ res' = ConfigResult("add_arg", -1, ptrsOk, strdupOk,
                                     config, config')
         ELSE /\ config' = StoreArg(config, arg)
              /\ res' = ConfigResult("add_arg", 0, ptrsOk, strdupOk,
                                     config, config')
    /\ UNCHANGED auxVars
    /\ UNCHANGED <<g_initialized, sigchld, proc, pc, frame>>

\* Mutant: the capacity test off by one.
EnvFullOffByOne(cfg) == cfg.env_count > REXOS_MAX_ENV

\* if (config->env_count >= REXOS_MAX_ENV) return -1;
EnvFull(cfg) == cfg.env_count >= REXOS_MAX_ENV

\* Mutant: the key and the value are stored whole.
StoreEnvWhole(cfg, key, value) ==
    [cfg EXCEPT !.env = Append(@, <<key, value>>), !.env_count = @ + 1]

\* The two strncpy into config->env[config->env_count]; config->env_count++;
StoreEnv(cfg, key, value) ==
    [cfg EXCEPT !.env = Append(@, <<StrNCpy(key, ENV_KEY_SIZE - 1),
                                    StrNCpy(value, ENV_VALUE_SIZE - 1)>>),
                !.env_count = @ + 1]

rexos_launch_config_add_env ==
    /\ pc = "idle"
    /\ \E cfgPresent \in BOOLEAN :
       \E key \in KeyInputs(config.env_count) \cup {NULL} :
       \E value \in ValueInputs(config.env_count) \cup {NULL} :
         LET ptrsOk == cfgPresent /\ key # NULL /\ value # NULL IN
         IF ~cfgPresent \/ key = NULL \/ value = NULL
         THEN /\ UNCHANGED config
              /\ res' = ConfigResult("add_env", -1, ptrsOk, TRUE,
                                     config, config')
         ELSE IF EnvFull(config)
         THEN /\ UNCHANGED config
              /\ res' = ConfigResult("add_env", -1, ptrsOk, TRUE,
                                     config, config')
         ELSE /\ config' = StoreEnv(config, key, value)
              /\ res' = [key |-> key, value |-> value] @@
                        ConfigResult("add_env", 0, ptrsOk, TRUE,
                                     config, config')
    /\ UNCHANGED auxVars
    /\ UNCHANGED <<g_initialized, sigchld, proc, pc, frame>>

(* ------------------------- build_argv, applied ------------------------- *)

\* What a caller assigns to the public fields of rexos_launch_config_t
\* between rexos_launch_config_init and rexos_launch: a RetroArch launch
\* with every option set, one with none, and launches of other emulators.
FieldSettings ==
    {[type |-> "REXOS_EMU_RETROARCH", executable |-> "/bin/retroarch",
      core_path |-> "/cores/snes.so", config_path |-> "/etc/ra.cfg",
      fullscreen |-> TRUE, verbose |-> TRUE, load_state_slot |-> 3,
      rom_path |-> "/roms/game.sfc"],
     [type |-> "REXOS_EMU_RETROARCH", executable |-> "/bin/retroarch",
      core_path |-> "", config_path |-> "",
      fullscreen |-> FALSE, verbose |-> FALSE, load_state_slot |-> -1,
      rom_path |-> ""],
     [type |-> "REXOS_EMU_PPSSPP", executable |-> "/bin/ppsspp",
      core_path |-> "", config_path |-> "",
      fullscreen |-> TRUE, verbose |-> FALSE, load_state_slot |-> -1,
      rom_path |-> "/roms/game.iso"],
     [type |-> "REXOS_EMU_CUSTOM", executable |-> "/bin/emu",
      core_path |-> "/cores/snes.so", config_path |-> "",
      fullscreen |-> TRUE, verbose |-> TRUE, load_state_slot |-> 0,
      rom_path |-> ""]}

\* The caller assigns the fields; the extra arguments and the environment
\* are left to rexos_launch_config_add_arg and rexos_launch_config_add_env.
SetFields ==
    /\ pc = "idle"
    /\ \E f \in FieldSettings :
         config' = [config EXCEPT
                      !.type = f.type, !.executable = f.executable,
                      !.core_path = f.core_path,
                      !.config_path = f.config_path,
                      !.fullscreen = f.fullscreen, !.verbose = f.verbose,
                      !.load_state_slot = f.load_state_slot,
                      !.rom_path = f.rom_path]
    /\ res' = [op |-> "set_fields"]
    /\ UNCHANGED auxVars
    /\ UNCHANGED <<g_initialized, sigchld, proc, pc, frame>>

\* build_argv applied to the config: what rexos_launch does after its checks.
\* allocFails: an allocation of build_argv may fail.
BuildArgvIn(allocFails) ==
    /\ pc = "idle"
    /\ \E mem \in IF allocFails THEN MemOutcomes(config) ELSE {AllocOk} :
         res' = [op |-> "build_argv", mem |-> mem,
                 built |-> build_argv(config, mem)]
    /\ UNCHANGED auxVars
    /\ UNCHANGED <<g_initialized, sigchld, proc, pc, frame, config>>

\* build_argv in any state of the heap.
BuildArgv == BuildArgvIn(TRUE)

\* build_argv with memory to spare.
BuildArgvAllocated == BuildArgvIn(FALSE)

(* ------------------------- two supervising threads --------------------- *)

\* The process each supervising thread supervises.
OwnPid(t) == t

\* A child whose execvp of the emulator succeeded and that is running.
RunningChild ==
    ExecReplaced(Fork([p \in {1} |-> NoProc], 1, "/bin/retroarch")[1])

\* timeout_ms of the waits the threads make: blocking and timed.
ConcTimeouts == {-1, 1}

\* The scheduler runs the other supervising thread: pc, frame and res are
\* those of the thread that runs, saved holds those of the other one.
Switch ==
    /\ cur' = CHOOSE t \in ThreadIds : t # cur
    /\ saved' = [pc |-> pc, frame |-> frame, res |-> res]
    /\ pc' = saved.pc
    /\ frame' = saved.frame
    /\ res' = saved.res
    /\ UNCHANGED <<g_initialized, sigchld, proc, config>>
    /\ UNCHANGED <<child, prev, cpu, sampled>>
    /\ UNCHANGED sampleVars
    /\ UNCHANGED hookVars

\* The running thread calls rexos_wait, rexos_kill or
\* rexos_get_process_info for the process it supervises.
ThreadWait == WaitCallOf({OwnPid(cur)}, ConcTimeouts)
ThreadKill == SignalCall("kill", OwnPid(cur), KillSignal)
ThreadInfo == InfoCallOf({OwnPid(cur)})

(* --------------------------- the child's setup ------------------------- *)

\* Configs that differ in what setup_child_process looks at.
SetupConfigs ==
    {[ConfigDefaults EXCEPT !.executable = "/bin/retroarch",
                            !.nice_value = nice, !.cpu_affinity = aff,
                            !.realtime_priority = rt,
                            !.env = env, !.env_count = Len(env)] :
        nice \in {0, -5}, aff \in {-1, 2}, rt \in BOOLEAN,
        env \in {<<>>, <<<<"HOME", "/a">>, <<"LANG", "C">>>>}}

\* A system call of a child as it is noted in its calls; ok says that
\* it succeeded.  Nothing in the child branch tests ok.
SysCall(call, args, ok) == [call |-> call, args |-> args, ok |-> ok]

\* The child c after a step: the calls it made, and where it goes on.
ChildAt(c, made, next, i) ==
    [child EXCEPT ![c] = [pc |-> next, i |-> i, calls |-> @.calls \o made]]

\* Where the child c is in its branch.
InChild(c, at) ==
    proc[c].st = "forked" /\ ~proc[c].execFailed /\ child[c].pc = at

\* if (config->nice_value != 0) setpriority(PRIO_PROCESS, 0, nice_value);
ChildNice(c) ==
    /\ InChild(c, "nice")
    /\ \E ok \in BOOLEAN :
         child' = ChildAt(c, IF config.nice_value # 0
                          THEN <<SysCall("setpriority",
                                         <<ToString(config.nice_value)>>, ok)>>
                          ELSE <<>>, "affinity", 0)
    /\ UNCHANGED <<g_initialized, sigchld, proc, pc, frame, res, config>>
    /\ UNCHANGED <<cur, saved, prev, cpu, sampled>>
    /\ UNCHANGED sampleVars
    /\ UNCHANGED hookVars

\* if (config->cpu_affinity >= 0) sched_setaffinity(0, ..., {cpu_affinity});
ChildAffinity(c) ==
    /\ InChild(c, "affinity")
    /\ \E ok \in BOOLEAN :
         child' = ChildAt(c, IF config.cpu_affinity >= 0
                          THEN <<SysCall("sched_setaffinity",
                                         <<ToString(config.cpu_affinity)>>, ok)>>
                          ELSE <<>>, "realtime", 0)
    /\ UNCHANGED <<g_initialized, sigchld, proc, pc, frame, res, config>>
    /\ UNCHANGED <<cur, saved, prev, cpu, sampled>>
    /\ UNCHANGED sampleVars
    /\ UNCHANGED hookVars

\* if (config->realtime_priority)
\*     sched_setscheduler(0, SCHED_FIFO, {sched_get_priority_max(SCHED_FIFO)});
ChildRealtime(c) ==
    /\ InChild(c, "realtime")
    /\ \E ok \in BOOLEAN :
         child' = ChildAt(c, IF config.realtime_priority
                          THEN <<SysCall("sched_setscheduler",
                                         <<"SCHED_FIFO", "max">>, ok)>>
                          ELSE <<>>, "env", 0)
    /\ UNCHANGED <<g_initialized, sigchld, proc, pc, frame, res, config>>
    /\ UNCHANGED <<cur, saved, prev, cpu, sampled>>
    /\ UNCHANGED sampleVars
    /\ UNCHANGED hookVars

\* Mutant: the loop takes the entries from the last to the first.
EnvEntryReversed(cfg, i) == cfg.env[cfg.env_count - i]

\* config->env[i]
EnvEntry(cfg, i) == cfg.env[i + 1]

\* for (i = 0; i < config->env_count; i++) setenv(key, value, 1);
\* one step is the loop test and, when it holds, one iteration.
ChildSetenv(c) ==
    /\ InChild(c, "env")
    /\ IF child[c].i < config.env_count
       THEN \E ok \in BOOLEAN :
              child' = ChildAt(c, <<SysCall("setenv", EnvEntry(config, child[c].i),
                                         ok)>>, "env", child[c].i + 1)
       ELSE child' = ChildAt(c, <<>>, "setsid", child[c].i)
    /\ UNCHANGED <<g_initialized, sigchld, proc, pc, frame, res, config>>
    /\ UNCHANGED <<cur, saved, prev, cpu, sampled>>
    /\ UNCHANGED sampleVars
    /\ UNCHANGED hookVars

\* setsid();
ChildSetsid(c) ==
    /\ InChild(c, "setsid")
    /\ \E ok \in BOOLEAN :
         child' = ChildAt(c, <<SysCall("setsid", <<>>, ok)>>, "close", child[c].i)
    /\ UNCHANGED <<g_initialized, sigchld, proc, pc, frame, res, config>>
    /\ UNCHANGED <<cur, saved, prev, cpu, sampled>>
    /\ UNCHANGED sampleVars
    /\ UNCHANGED hookVars

\* close(STDIN_FILENO);
ChildCloseStdin(c) ==
    /\ InChild(c, "close")
    /\ \E ok \in BOOLEAN :
         child' = ChildAt(c, <<SysCall("close", <<"STDIN_FILENO">>, ok)>>,
                          "open", child[c].i)
    /\ UNCHANGED <<g_initialized, sigchld, proc, pc, frame, res, config>>
    /\ UNCHANGED <<cur, saved, prev, cpu, sampled>>
    /\ UNCHANGED sampleVars
    /\ UNCHANGED hookVars

\* open("/dev/null", O_RDONLY);
ChildOpenNull(c) ==
    /\ InChild(c, "open")
    /\ \E ok \in BOOLEAN :
         child' = ChildAt(c, <<SysCall("open", <<"/dev/null", "O_RDONLY">>, ok)>>,
                          "exec", child[c].i)
    /\ UNCHANGED <<g_initialized, sigchld, proc, pc, frame, res, config>>
    /\ UNCHANGED <<cur, saved, prev, cpu, sampled>>
    /\ UNCHANGED sampleVars
    /\ UNCHANGED hookVars

\* execvp(argv[0], argv) and what follows it, at its place in the branch.
ChildExecAfterSetup(c) ==
    /\ InChild(c, "exec")
    /\ ChildExec(c)

(* ------------------------------ performance --------------------------- *)

\* d_user + d_nice + d_system + d_idle + d_iowait + d_irq + d_softirq
TotalOf(d) ==
    d.user + d.nice + d.system + d.idle + d.iowait + d.irq + d.softirq

\* d_user + d_nice + d_system + d_irq + d_softirq
BusyOf(d) == d.user + d.nice + d.system + d.irq + d.softirq

\* The deltas of a reading against the previous sample.
Deltas(reading, previous) == [f \in CpuFields |-> reading[f] - previous[f]]

\* if (total == 0) return 0.0f; return (float)busy / (float)total * 100.0f;
\* The float is kept as whole percent.
UsagePercent(busy, total) ==
    IF total = 0 THEN 0 ELSE (busy * 100) \div total

\* The kernel accounts one more jiffy to a field of the "cpu" line, one of
\* Fs.
TickIn(Fs) ==
    /\ TotalOf(cpu) < MaxJiffies
    /\ \E f \in Fs : cpu' = [cpu EXCEPT ![f] = @ + 1]
    /\ UNCHANGED <<g_initialized, sigchld, proc, pc, frame, res, config>>
    /\ UNCHANGED <<cur, saved, child, prev, sampled>>
    /\ UNCHANGED sampleVars
    /\ UNCHANGED hookVars

Tick == TickIn(CpuFields)

\* A system whose time is spent in user mode or idle.
TickUserOrIdle == TickIn({"user", "idle"})

\* rexos_get_perf_stats, its cpu_usage_percent.  readOk: fopen and fgets of
\* /proc/stat succeeded in calculate_cpu_usage.  Ghosts of the result:
\* hadSample, a sample was stored in prev_* before the call; read, the
\* reading was taken; busy and total, the jiffies accounted since the
\* previous sample (since boot when there is none).
rexos_get_perf_stats ==
    /\ pc = "idle"
    /\ \E statsPresent \in BOOLEAN, readOk \in BOOLEAN :
         LET d == Deltas(cpu, prev) IN
         IF ~statsPresent
         THEN /\ res' = [op |-> "perf", err |-> REXOS_ERR_INVALID_ARG]
              /\ UNCHANGED <<prev, sampled, taken>>
         ELSE IF ~readOk
         THEN /\ res' = [op |-> "perf", err |-> REXOS_OK,
                         cpu_usage_percent |-> 0, hadSample |-> sampled,
                         read |-> FALSE,
                         busy |-> BusyOf(d), total |-> TotalOf(d)]
              /\ UNCHANGED <<prev, sampled, taken>>
         ELSE /\ res' = [op |-> "perf", err |-> REXOS_OK,
                         cpu_usage_percent |->
                             UsagePercent(BusyOf(d), TotalOf(d)),
                         hadSample |-> sampled, read |-> TRUE,
                         busy |-> BusyOf(d), total |-> TotalOf(d)]
              /\ prev' = cpu
              /\ sampled' = TRUE
              /\ taken' = taken \cup {cpu}
    /\ UNCHANGED <<g_initialized, sigchld, proc, pc, frame, config>>
    /\ UNCHANGED <<cur, saved, child, cpu, raced>>
    /\ UNCHANGED hookVars

(* -------------------------------- hotkeys ------------------------------ *)

\* The thread that calls rexos_poll_hotkeys.
PollThread == 1

\* Callbacks a caller registers: none, or one of two functions.
Callbacks == {NULL, "on_hotkey", "on_hotkey2"}

\* Input events read from the device: presses and releases of Select, of
\* two buttons that have a hotkey, of one that has none, and an event that
\* is no key.
EventCodes == {"BTN_SELECT", "BTN_START", "BTN_DPAD_UP", "BTN_A"}
InputEvents ==
    [type : {"EV_KEY"}, code : EventCodes, value : {0, 1}]
      \cup {[type |-> "EV_ABS", code |-> "BTN_START", value |-> 1]}

\* rexos_hotkey_action_t action = 0; switch (ev->code)
HotkeyAction(code) ==
    CASE code = "BTN_START"      -> "REXOS_HOTKEY_EXIT"
      [] code = "BTN_TR"         -> "REXOS_HOTKEY_SAVE_STATE"
      [] code = "BTN_TL"         -> "REXOS_HOTKEY_LOAD_STATE"
      [] code = "BTN_TL2"        -> "REXOS_HOTKEY_SCREENSHOT"
      [] code = "BTN_TR2"        -> "REXOS_HOTKEY_FAST_FORWARD"
      [] code = "BTN_X"          -> "REXOS_HOTKEY_MENU"
      [] code = "BTN_Y"          -> "REXOS_HOTKEY_PAUSE"
      [] code = "BTN_DPAD_UP"    -> "REXOS_HOTKEY_VOLUME_UP"
      [] code = "BTN_DPAD_DOWN"  -> "REXOS_HOTKEY_VOLUME_DOWN"
      [] code = "BTN_DPAD_RIGHT" -> "REXOS_HOTKEY_BRIGHTNESS_UP"
      [] code = "BTN_DPAD_LEFT"  -> "REXOS_HOTKEY_BRIGHTNESS_DOWN"
      [] OTHER                   -> "none"

\* What the hotkey code leaves alone.
HotkeyUnchanged ==
    /\ UNCHANGED <<g_initialized, sigchld, proc, pc, frame, res, config>>
    /\ UNCHANGED <<cur, saved, child, prev, cpu, sampled>>
    /\ UNCHANGED sampleVars

\* handle_input_event for one event read by rexos_poll_hotkeys, up to the
\* pthread_mutex_lock of trigger_hotkey.
handle_input_event(t) ==
    /\ t = PollThread
    /\ hk[t].pc = "idle"
    /\ \E ev \in InputEvents :
         LET pressed == ev.value # 0 IN
         IF ev.type # "EV_KEY"
         THEN UNCHANGED <<g_input_state, hk>>
         ELSE IF ev.code = "BTN_SELECT"
         THEN /\ g_input_state' =
                   [g_input_state EXCEPT !.modifier_pressed = pressed]
              /\ UNCHANGED hk
         ELSE /\ g_input_state' =
                   [g_input_state EXCEPT
                      !.buttons = IF pressed THEN @ \cup {ev.code}
                                  ELSE @ \ {ev.code}]
              /\ IF pressed /\ g_input_state.modifier_pressed
                    /\ HotkeyAction(ev.code) # "none"
                 THEN hk' = [hk EXCEPT ![t] =
                               [NoHotkeyCall EXCEPT
                                  !.pc = "trigger_lock", !.code = ev.code,
                                  !.action = HotkeyAction(ev.code)]]
                 ELSE UNCHANGED hk
    /\ UNCHANGED <<g_hotkey_mutex, g_hotkey_callback>>
    /\ HotkeyUnchanged

\* trigger_hotkey: pthread_mutex_lock(&g_hotkey_mutex) returns once the
\* mutex is free, and if (g_hotkey_callback) follows.
TriggerLock(t) ==
    /\ hk[t].pc = "trigger_lock"
    /\ g_hotkey_mutex = 0
    /\ g_hotkey_mutex' = t
    /\ hk' = [hk EXCEPT ![t].pc = IF g_hotkey_callback # NULL
                                  THEN "callback" ELSE "trigger_unlock"]
    /\ UNCHANGED <<g_hotkey_callback, g_input_state>>
    /\ HotkeyUnchanged

\* g_hotkey_callback((int)action, g_hotkey_user_data): the callback runs
\* with the mutex held.  It returns, or it calls
\* rexos_register_hotkey_callback first (once).
CallbackRuns(t) ==
    /\ hk[t].pc = "callback"
    /\ \/ hk' = [hk EXCEPT ![t].pc = "trigger_unlock"]
       \/ /\ ~hk[t].nested
          /\ \E cb \in Callbacks :
               hk' = [hk EXCEPT ![t].pc = "register_lock", ![t].newcb = cb,
                                ![t].inside = TRUE]
    /\ UNCHANGED <<g_hotkey_mutex, g_hotkey_callback, g_input_state>>
    /\ HotkeyUnchanged

\* A thread that is not in the hotkey code calls
\* rexos_register_hotkey_callback.
rexos_register_hotkey_callback(t) ==
    /\ hk[t].pc = "idle"
    /\ \E cb \in Callbacks :
         hk' = [hk EXCEPT ![t] = [NoHotkeyCall EXCEPT
                                   !.pc = "register_lock", !.newcb = cb]]
    /\ UNCHANGED <<g_hotkey_mutex, g_hotkey_callback, g_input_state>>
    /\ HotkeyUnchanged

\* Mutant: the mutex is recursive, a relock by its owner returns.
RelockOutcomesRecursive == {"register_store"}

\* pthread_mutex_lock of a mutex initialised with PTHREAD_MUTEX_INITIALIZER
\* by the thread that holds it: the behaviour is undefined.  The thread
\* blocks for ever (what the default mutex of glibc and of musl does), or
\* the call returns.
RelockOutcomes == {"deadlocked", "register_store"}

\* rexos_register_hotkey_callback: pthread_mutex_lock(&g_hotkey_mutex).
RegisterLock(t) ==
    /\ hk[t].pc = "register_lock"
    /\ \/ /\ g_hotkey_mutex = 0
          /\ g_hotkey_mutex' = t
          /\ hk' = [hk EXCEPT ![t].pc = "register_store"]
       \/ /\ g_hotkey_mutex = t
          /\ \E at \in RelockOutcomes : hk' = [hk EXCEPT ![t].pc = at]
          /\ UNCHANGED g_hotkey_mutex
    /\ UNCHANGED <<g_hotkey_callback, g_input_state>>
    /\ HotkeyUnchanged

\* g_hotkey_callback = callback; g_hotkey_user_data = user_data;
\* pthread_mutex_unlock(&g_hotkey_mutex); return REXOS_OK;
RegisterStore(t) ==
    /\ hk[t].pc = "register_store"
    /\ g_hotkey_callback' = hk[t].newcb
    /\ g_hotkey_mutex' = 0
    /\ hk' = [hk EXCEPT ![t] = IF hk[t].inside
                               THEN [@ EXCEPT !.pc = "callback",
                                              !.inside = FALSE,
                                              !.nested = TRUE]
                               ELSE NoHotkeyCall]
    /\ UNCHANGED g_input_state
    /\ HotkeyUnchanged

\* trigger_hotkey: pthread_mutex_unlock(&g_hotkey_mutex), and the return
\* to rexos_poll_hotkeys.
TriggerUnlock(t) ==
    /\ hk[t].pc = "trigger_unlock"
    /\ g_hotkey_mutex' = 0
    /\ hk' = [hk EXCEPT ![t] = NoHotkeyCall]
    /\ UNCHANGED <<g_hotkey_callback, g_input_state>>
    /\ HotkeyUnchanged

(* ----------------- calculate_cpu_usage, statement by statement --------- *)

\* The order in which calculate_cpu_usage reads and writes prev_*.
FieldOrder == <<"user", "nice", "system", "idle", "iowait", "irq", "softirq">>

\* A thread is inside calculate_cpu_usage.
InPerfCall(at) == at \in {"perf_delta", "perf_save"}

\* rexos_get_perf_stats up to the sscanf of calculate_cpu_usage, by the
\* thread that runs.  reading: the counters read from /proc/stat.  delta:
\* d_user .. d_softirq.  Ghosts of the frame: used, the value of prev_* each
\* delta was taken against; before, the readings taken before this one.
PerfCall ==
    /\ pc = "idle"
    /\ \E statsPresent \in BOOLEAN, readOk \in BOOLEAN :
         IF ~statsPresent
         THEN /\ res' = [op |-> "perf", err |-> REXOS_ERR_INVALID_ARG]
              /\ UNCHANGED <<pc, frame, taken, raced>>
         ELSE IF ~readOk
         THEN /\ res' = [op |-> "perf", err |-> REXOS_OK,
                         cpu_usage_percent |-> 0, read |-> FALSE]
              /\ UNCHANGED <<pc, frame, taken, raced>>
         ELSE /\ frame' = [op |-> "perf", reading |-> cpu, i |-> 0,
                           delta |-> [f \in CpuFields |-> 0],
                           used |-> [f \in CpuFields |-> 0],
                           before |-> taken]
              /\ pc' = "perf_delta"
              /\ res' = NoRes
              /\ taken' = taken \cup {cpu}
              /\ raced' = (raced \/ InPerfCall(saved.pc))
    /\ UNCHANGED <<g_initialized, sigchld, proc, config>>
    /\ UNCHANGED <<cur, saved, child, prev, cpu, sampled>>
    /\ UNCHANGED hookVars

\* unsigned long long d_user = user - prev_user; and the six statements
\* that follow it, one at a time.  A negative delta stands for the
\* difference modulo 2^64.
PerfDelta ==
    /\ pc = "perf_delta"
    /\ LET f == FieldOrder[frame.i + 1]
           last == frame.i + 1 = Len(FieldOrder) IN
       /\ frame' = [frame EXCEPT
                      !.delta[f] = frame.reading[f] - prev[f],
                      !.used[f] = prev[f],
                      !.i = IF last THEN 0 ELSE @ + 1]
       /\ pc' = IF last THEN "perf_save" ELSE "perf_delta"
    /\ UNCHANGED <<g_initialized, sigchld, proc, res, config>>
    /\ UNCHANGED <<cur, saved, child, prev, cpu, sampled>>
    /\ UNCHANGED sampleVars
    /\ UNCHANGED hookVars

\* Mutant: prev_idle is not saved.
SavePrevButIdle(previous, reading, f) ==
    IF f = "idle" THEN previous ELSE [previous EXCEPT ![f] = reading[f]]

\* prev_user = user; and the six statements that follow it.
SavePrev(previous, reading, f) == [previous EXCEPT ![f] = reading[f]]

\* What calculate_cpu_usage returns for the deltas it computed, kept as
\* whole percent; with a delta that wrapped around, busy and total are
\* numbers near 2^64 and the quotient is not represented here (0).
PerfUsage(d) ==
    IF \E f \in CpuFields : d[f] < 0 THEN 0
    ELSE UsagePercent(BusyOf(d), TotalOf(d))

\* prev_user = user; .. prev_softirq = softirq; one at a time, and after
\* the last of them the return of calculate_cpu_usage and of
\* rexos_get_perf_stats.  Ghosts of the result: stored, prev_* as the call
\* leaves them; raced, some calls have overlapped so far.
PerfSave ==
    /\ pc = "perf_save"
    /\ LET f == FieldOrder[frame.i + 1]
           last == frame.i + 1 = Len(FieldOrder) IN
       /\ prev' = SavePrev(prev, frame.reading, f)
       /\ IF last
          THEN /\ res' = [op |-> "perf", err |-> REXOS_OK,
                          cpu_usage_percent |-> PerfUsage(frame.delta),
                          read |-> TRUE, reading |-> frame.reading,
                          delta |-> frame.delta, used |-> frame.used,
                          before |-> frame.before, stored |-> prev',
                          raced |-> raced]
               /\ pc' = "idle"
               /\ frame' = NoFrame
               /\ sampled' = TRUE
          ELSE /\ frame' = [frame EXCEPT !.i = @ + 1]
               /\ UNCHANGED <<pc, res, sampled>>
    /\ UNCHANGED <<g_initialized, sigchld, proc, config>>
    /\ UNCHANGED <<cur, saved, child, cpu>>
    /\ UNCHANGED sampleVars
    /\ UNCHANGED hookVars

(* ---------------------------- specification ---------------------------- *)

Next ==
    \/ rexos_init
    \/ rexos_cleanup
    \/ LaunchCall
    \/ LaunchReturn
    \/ \E c \in Pids : ChildExec(c)
    \/ \E c \in Pids : ChildExit(c)
    \/ \E c \in Pids : ChildKilled(c)
    \/ WaitCall
    \/ WaitPoll
    \/ WaitSleep
    \/ WaitFinal

\* Launching and waiting.
Spec == Init /\ [][Next]_vars

\* The whole process interface: launching and waiting, signals and their
\* delivery, the scheduler, process information.
LifeNext ==
    \/ rexos_init
    \/ rexos_cleanup
    \/ LaunchCall
    \/ LaunchReturn
    \/ \E c \in Pids : ChildExec(c)
    \/ \E c \in Pids : ChildExit(c)
    \/ \E c \in Pids : ChildKilled(c)
    \/ \E c \in Pids : ChildSched(c)
    \/ rexos_signal
    \/ rexos_stop
    \/ rexos_kill
    \/ \E c \in Pids : DeliverKill(c)
    \/ \E c \in Pids : DeliverTerm(c)
    \/ \E c \in Pids : DeliverStop(c)
    \/ WaitCall
    \/ WaitPoll
    \/ WaitSleep
    \/ WaitFinal
    \/ InfoCall
    \/ InfoRead

LifeSpec == Init /\ [][LifeNext]_vars

\* Building a launch config.
ConfigNext ==
    \/ rexos_launch_config_init
    \/ rexos_launch_config_add_arg
    \/ rexos_launch_config_add_env

ConfigSpec == Init /\ [][ConfigNext]_vars

\* Building an argument vector from a config a caller filled in.
ArgvInit ==
    /\ g_initialized = FALSE
    /\ sigchld = "default"
    /\ proc = [p \in 1..MaxPids |-> NoProc]
    /\ pc = "idle"
    /\ frame = NoFrame
    /\ res = NoRes
    /\ config \in ArgvConfigs
    /\ AuxInit

ArgvNext ==
    \/ rexos_launch_config_init
    \/ BuildArgv

ArgvSpec == ArgvInit /\ [][ArgvNext]_vars

\* Filling a config in, then building its argument vector.
ArgsNext ==
    \/ rexos_launch_config_init
    \/ rexos_launch_config_add_arg
    \/ SetFields
    \/ BuildArgvAllocated

ArgsSpec == Init /\ [][ArgsNext]_vars

\* Launching in any state of the heap.
LaunchNext ==
    \/ rexos_init
    \/ LaunchCallAnyMem
    \/ LaunchReturn
    \/ \E c \in Pids : ChildExec(c)
    \/ \E c \in Pids : ChildExit(c)

LaunchSpec == Init /\ [][LaunchNext]_vars

\* A launch whose child branch is followed call by call.
SetupInit ==
    /\ g_initialized = FALSE
    /\ sigchld = "default"
    /\ proc = [p \in 1..MaxPids |-> NoProc]
    /\ pc = "idle"
    /\ frame = NoFrame
    /\ res = NoRes
    /\ config \in SetupConfigs
    /\ AuxInit

SetupNext ==
    \/ LaunchCall
    \/ LaunchReturn
    \/ \E c \in Pids : ChildNice(c)
    \/ \E c \in Pids : ChildAffinity(c)
    \/ \E c \in Pids : ChildRealtime(c)
    \/ \E c \in Pids : ChildSetenv(c)
    \/ \E c \in Pids : ChildSetsid(c)
    \/ \E c \in Pids : ChildCloseStdin(c)
    \/ \E c \in Pids : ChildOpenNull(c)
    \/ \E c \in Pids : ChildExecAfterSetup(c)

SetupSpec == SetupInit /\ [][SetupNext]_vars

\* Two threads, each supervising one of two running emulators.
ConcInit ==
    /\ g_initialized = FALSE
    /\ sigchld = "default"
    /\ proc = [p \in 1..(MaxPids + 1) |-> RunningChild]
    /\ pc = "idle"
    /\ frame = NoFrame
    /\ res = NoRes
    /\ config = ConfigDefaults
    /\ AuxInit

ConcNext ==
    \/ Switch
    \/ ThreadWait
    \/ WaitPoll
    \/ WaitSleep
    \/ WaitFinal
    \/ ThreadKill
    \/ ThreadInfo
    \/ InfoRead
    \/ \E c \in Pids : ChildExit(c)
    \/ \E c \in Pids : DeliverKill(c)

ConcSpec == ConcInit /\ [][ConcNext]_vars

\* Sampling the CPU load while the system runs.
PerfNext ==
    \/ Tick
    \/ rexos_get_perf_stats

PerfSpec == Init /\ [][PerfNext]_vars

\* Two threads sampling the CPU load with no lock between them.
PerfRaceNext ==
    \/ TickUserOrIdle
    \/ Switch
    \/ PerfCall
    \/ PerfDelta
    \/ PerfSave

PerfRaceSpec == Init /\ [][PerfRaceNext]_vars

\* Polling the input device in one thread while any thread registers
\* callbacks.  A thread in the hotkey code goes on when it can, the callback
\* returns, and a thread waiting for the mutex gets it when it is released
\* again and again; no button has to be pressed and no caller has to
\* register.
HotkeyNext ==
    \/ \E t \in ThreadIds : handle_input_event(t)
    \/ \E t \in ThreadIds : TriggerLock(t)
    \/ \E t \in ThreadIds : CallbackRuns(t)
    \/ \E t \in ThreadIds : rexos_register_hotkey_callback(t)
    \/ \E t \in ThreadIds : RegisterLock(t)
    \/ \E t \in ThreadIds : RegisterStore(t)
    \/ \E t \in ThreadIds : TriggerUnlock(t)

HotkeyFairness ==
    \A t \in ThreadIds :
      /\ SF_vars(TriggerLock(t))
      /\ SF_vars(RegisterLock(t))
      /\ WF_vars(CallbackRuns(t))
      /\ WF_vars(RegisterStore(t))
      /\ WF_vars(TriggerUnlock(t))

HotkeySpec == Init /\ [][HotkeyNext]_vars /\ HotkeyFairness

\* Building the environment of a launch config.
EnvNext ==
    \/ rexos_launch_config_init
    \/ rexos_launch_config_add_env

EnvSpec == Init /\ [][EnvNext]_vars

\* What the operating system guarantees: a call in progress goes on when
\* it can, a forked child reaches its execvp, and a pending signal is
\* delivered.  No target program has to exit, and no caller has to make
\* another call.
Fairness ==
    /\ WF_vars(LaunchReturn)
    /\ WF_vars(WaitFinal)
    /\ \A c \in 1..MaxPids : /\ WF_vars(ChildExec(c))
                       /\ WF_vars(DeliverKill(c))
                       /\ WF_vars(DeliverTerm(c))
                       /\ WF_vars(DeliverStop(c))

\* Stopping and killing a child and waiting for it without a timeout.
FairNext ==
    \/ rexos_init
    \/ LaunchCall
    \/ LaunchReturn
    \/ \E c \in Pids : ChildExec(c)
    \/ \E c \in Pids : ChildExit(c)
    \/ \E c \in Pids : ChildSched(c)
    \/ rexos_signal
    \/ rexos_stop
    \/ rexos_kill
    \/ \E c \in Pids : DeliverKill(c)
    \/ \E c \in Pids : DeliverTerm(c)
    \/ \E c \in Pids : DeliverStop(c)
    \/ WaitCallBlocking
    \/ WaitFinal

FairSpec == Init /\ [][FairNext]_vars /\ Fairness

(* ------------------------------- claims -------------------------------- *)

\* The result the caller reads back in *exit_code when it passed a pointer.
ExitReported(r, code) == r.has_out => (r.out_written /\ r.out_value = code)

\* ceil(a / b) for positive b
CeilDiv(a, b) == (a + b - 1) \div b

\* The last call was a rexos_wait on a pid that passed the argument check.
WaitDone == res.op = "wait" /\ res.pid > 0

\* C1: rexos_launch returns InvalidArgument when the config or the pid output
\* is absent or the executable path is empty, and NotFound when the path is
\* non-empty but does not resolve to an executable file; in these cases no
\* child is created and *pid is not written.  Stated for the calls in which
\* neither the allocation of the argument vector nor fork fails.
C1_LaunchRejectsNonExecutable ==
    (res.op = "launch"
       /\ res.err \notin {REXOS_ERR_MEMORY, REXOS_ERR_FORK_FAILED}) =>
      /\ (~res.cfgPresent \/ ~res.pidPtr \/ res.exe = "") =>
            /\ res.err = REXOS_ERR_INVALID_ARG
            /\ res.created = 0
            /\ ~res.pid_written
      /\ (res.cfgPresent /\ res.pidPtr /\ res.exe # ""
            /\ FileKind(res.exe) # "exec_file") =>
            /\ res.err = REXOS_ERR_NOT_FOUND
            /\ res.created = 0
            /\ ~res.pid_written

\* C2: a rexos_launch that returns success has created exactly one child,
\* has written that child's identifier to *pid, and the parent never waits
\* on the child between fork and return; a rexos_launch that returns an error
\* has created no child.
C2_LaunchCreatesExactlyOneChild ==
    /\ (res.op = "launch" /\ res.err = REXOS_OK) =>
          /\ res.created = 1
          /\ res.pid_written
          /\ res.pid_value \in Pids
          /\ proc[res.pid_value].st # "none"
          /\ res.childSt # "none"
          /\ (sigchld = "default" => res.childSt # "reaped")
    /\ (res.op = "launch" /\ res.err # REXOS_OK) => res.created = 0
    /\ pc = "launch_forked" => ENABLED LaunchReturn

\* C2 witness: rexos_launch has returned success while its child has neither
\* exec'd nor exited.
C2_Witness ==
    /\ res.op = "launch" /\ res.err = REXOS_OK
    /\ res.childSt = "forked"
    /\ proc[res.pid_value].st = "forked"

\* C3: a child whose execvp failed has terminated with exit status 127, in
\* the same step: it is never alive after the failure, so it runs no code
\* past the child branch of rexos_launch.
C3_ExecFailureExits127 ==
    \A c \in Pids :
      proc[c].execFailed =>
        /\ proc[c].st \notin Alive
        /\ proc[c].tkind = "exited"
        /\ proc[c].tcode = EXEC_FAILED_STATUS

\* C3 witness: a child's exec failed and it is a zombie with status 127.
C3_Witness ==
    \E c \in Pids :
      proc[c].execFailed /\ proc[c].st = "zombie" /\ proc[c].tcode = EXEC_FAILED_STATUS

\* C4: for a launched child whose exec failed, the first blocking rexos_wait
\* on its pid returns success with exit_code = 127.
C4_ExecFailureSeenAs127 ==
    (WaitDone /\ res.timeout_ms < 0 /\ ~res.prevOK /\ proc[res.pid].execFailed) =>
      /\ res.err = REXOS_OK
      /\ ExitReported(res, EXEC_FAILED_STATUS)

\* C5: rexos_wait with a positive timeout on a child that exits before the
\* timeout has elapsed (here: with SIGCHLD at its default disposition)
\* returns success with the child's exit code, never Timeout.
C5_TimedWaitSeesExit ==
    (WaitDone /\ res.timeout_ms > 0 /\ ~res.prevOK /\ sigchld = "default"
       /\ res.deadAt # -1 /\ res.deadAt < res.timeout_ms
       /\ proc[res.pid].tkind = "exited") =>
      /\ res.err = REXOS_OK
      /\ ExitReported(res, proc[res.pid].tcode)

\* C6: rexos_wait with a positive timeout T on a child that is alive for the
\* whole call returns Timeout after exactly ceil(T/10) polls, each followed by
\* one 10 ms sleep, and no Timeout is returned before elapsed has reached T.
C6_TimedWaitTimesOut ==
    /\ (WaitDone /\ res.timeout_ms > 0 /\ res.stAtReturn \in Alive) =>
          /\ res.err = REXOS_ERR_TIMEOUT
          /\ res.polls = CeilDiv(res.timeout_ms, POLL_INTERVAL_MS)
          /\ res.sleeps = res.polls
          /\ res.elapsed = res.sleeps * POLL_INTERVAL_MS
    /\ (WaitDone /\ res.timeout_ms > 0 /\ res.err = REXOS_ERR_TIMEOUT) =>
          res.elapsed >= res.timeout_ms

\* C6 witness: a timed wait with the largest timeout ran out on a living child
\* after more than one poll.
C6_Witness ==
    /\ WaitDone /\ res.timeout_ms = MaxTimeout /\ res.stAtReturn \in Alive
    /\ res.err = REXOS_ERR_TIMEOUT /\ res.polls > 1

C7_WitnessRunning ==
    WaitDone /\ res.timeout_ms = 0 /\ res.stAtReturn \in Alive
      /\ res.err = REXOS_ERR_TIMEOUT

\* C8: rexos_wait with a negative timeout never returns Timeout and never
\* returns while the child is alive: it returns success once the child is a
\* zombie, or IOError when waitpid fails.
C8_BlockingWaitNeverTimesOut ==
    /\ (pc = "wait_final" /\ frame.timeout_ms < 0 /\ IsChild(frame.pid)
          /\ proc[frame.pid].st \in Alive) => ~ENABLED WaitFinal
    /\ (WaitDone /\ res.timeout_ms < 0) =>
          /\ res.err \in {REXOS_OK, REXOS_ERR_IO}
          /\ res.stAtReturn \notin Alive
          /\ res.err = REXOS_OK <=> res.stAtReturn = "zombie"
          /\ res.err = REXOS_ERR_IO <=> res.lastPoll = -1
          /\ res.polls = 1 /\ res.sleeps = 0

\* C8 witness: a blocking wait (timeout -2) has returned success for a child
\* that terminated.
C8_Witness ==
    /\ WaitDone /\ res.timeout_ms = -2 /\ res.err = REXOS_OK
    /\ res.stAtReturn = "zombie"

\* C9: rexos_wait returns InvalidArgument for every pid <= 0 without calling
\* waitpid, and IOError whenever waitpid fails (pid is not an unreaped child
\* of the caller), whatever the timeout mode.
C9_WaitErrors ==
    res.op = "wait" =>
      /\ res.pid <= 0 => (res.err = REXOS_ERR_INVALID_ARG /\ res.polls = 0)
      /\ res.pid > 0 => res.polls >= 1
      /\ (res.polls >= 1 /\ res.lastPoll = -1) => res.err = REXOS_ERR_IO
      /\ (res.pid > 0 /\ res.timeout_ms <= 0
            /\ res.stAtReturn \in {"none", "reaped"}) => res.err = REXOS_ERR_IO
      /\ (res.pid > 0 /\ res.timeout_ms > 0 /\ res.deadAt = -1
            /\ res.stAtReturn = "none") => res.err = REXOS_ERR_IO

\* C9 witness: a timed wait returned IOError because the child it polled for
\* had been reaped during the call.
C9_Witness ==
    /\ WaitDone /\ res.timeout_ms > 0 /\ res.err = REXOS_ERR_IO
    /\ res.polls > 1

\* C9 second witness case: a non-positive pid was rejected.
C9_WitnessInvalid ==
    res.op = "wait" /\ res.pid = 0 /\ res.err = REXOS_ERR_INVALID_ARG

\* C10 as claimed: once rexos_wait has returned success for a handle, a
\* repeated rexos_wait on it reports the completion again, with the same exit
\* code.
C10_RepeatedWaitReportsAgain ==
    (WaitDone /\ res.prevOK) =>
      /\ res.err = REXOS_OK
      /\ proc[res.pid].tkind = "exited" => ExitReported(res, proc[res.pid].tcode)

\* C10 as amended: the first successful rexos_wait reaps the child; a repeated
\* rexos_wait on that handle, in any timeout mode, does not block, returns
\* IOError at its first poll without sleeping and writes no exit code.
C10_RepeatedWaitIsIOError ==
    /\ (pc \in {"wait_poll", "wait_final"} /\ frame.prevOK) =>
          ENABLED (WaitPoll \/ WaitFinal)
    /\ (WaitDone /\ res.prevOK) =>
          /\ res.err = REXOS_ERR_IO
          /\ res.polls = 1 /\ res.sleeps = 0
          /\ ~res.out_written

\* C10 witness: a blocking wait repeated on a handle already waited for.
C10_Witness ==
    /\ WaitDone /\ res.prevOK /\ res.timeout_ms < 0
    /\ res.err = REXOS_ERR_IO

\* A blocking rexos_wait is in progress that directly follows a successful
\* rexos_stop / rexos_kill of the same, living and not stopped, child.
BlockedAfter(via) ==
    pc = "wait_final" /\ frame.timeout_ms < 0 /\ frame.after = via

\* That wait has returned and the process is no longer alive.
ReturnedAfter(via) ==
    /\ pc = "idle" /\ res.op = "wait" /\ res.timeout_ms < 0 /\ res.after = via
    /\ res.stAtReturn \notin Alive

\* A successful rexos_stop / rexos_kill left the target as it was.
SentWithoutWaiting(via) ==
    (res.op = "signal" /\ res.via = via /\ res.err = REXOS_OK) =>
      res.stAfter = res.stBefore

\* C11 as stated: after rexos_stop on a running launched child, a following
\* blocking rexos_wait eventually returns, with the process terminated.
C11_StopThenWaitReturns ==
    BlockedAfter("stop") ~> ReturnedAfter("stop")

\* C11 amended: rexos_stop returns without waiting; a following blocking
\* rexos_wait returns only with the process terminated, and it does return
\* once the process has terminated.
C11_StopThenWaitReturnsIfChildDies ==
    /\ [](SentWithoutWaiting("stop"))
    /\ []((pc = "idle" /\ res.op = "wait" /\ res.timeout_ms < 0
            /\ res.after = "stop") => res.stAtReturn \notin Alive)
    /\ (BlockedAfter("stop") /\ proc[frame.pid].st \notin Alive)
          ~> ReturnedAfter("stop")

\* C11 witness: a blocking wait that followed rexos_stop has returned
\* success for a child that died of a signal.
C11_Witness ==
    /\ res.op = "wait" /\ res.timeout_ms < 0 /\ res.after = "stop"
    /\ res.err = REXOS_OK
    /\ proc[res.pid].tkind = "signaled"

\* C12: rexos_kill returns without waiting; after it succeeded for a living
\* child, the process terminates whatever it does with signals, so that a
\* following blocking rexos_wait returns.
C12_KillThenWaitReturns ==
    /\ [](SentWithoutWaiting("kill"))
    /\ BlockedAfter("kill") ~> ReturnedAfter("kill")

\* C12 witness: a blocking wait that followed rexos_kill has returned
\* success for a child that died of a signal.
C12_Witness ==
    /\ res.op = "wait" /\ res.timeout_ms < 0 /\ res.after = "kill"
    /\ res.err = REXOS_OK
    /\ proc[res.pid].tkind = "signaled"

C13_WitnessPermission ==
    res.op = "signal" /\ res.err = REXOS_ERR_PERMISSION

\* C14: rexos_get_process_info called directly after a successful
\* rexos_launch of an executable file, with the pid it returned, reports a
\* state other than dead.
C14_InfoAfterLaunchNotDead ==
    (res.op = "info" /\ res.err = REXOS_OK /\ res.afterLaunch) =>
      res.info.state # "DEAD"

\* The state rexos_get_process_info would report for pid p now.
Reported(procs, p) ==
    IF HasEntry(procs, p) THEN ParseState(StatLetter(procs[p])) ELSE "DEAD"

\* The transitions C15 lists.
ClaimedEdges ==
    {<<"UNKNOWN", "RUNNING">>, <<"RUNNING", "SLEEPING">>,
     <<"SLEEPING", "RUNNING">>, <<"RUNNING", "STOPPED">>,
     <<"SLEEPING", "STOPPED">>, <<"STOPPED", "RUNNING">>,
     <<"RUNNING", "ZOMBIE">>, <<"SLEEPING", "ZOMBIE">>, <<"ZOMBIE", "DEAD">>}

\* The transitions of the amended C15.
LivingStates == {"UNKNOWN", "RUNNING", "SLEEPING", "STOPPED"}
ActualEdges ==
    {<<"RUNNING", "SLEEPING">>, <<"SLEEPING", "RUNNING">>,
     <<"RUNNING", "UNKNOWN">>, <<"UNKNOWN", "RUNNING">>,
     <<"RUNNING", "STOPPED">>, <<"SLEEPING", "STOPPED">>,
     <<"UNKNOWN", "STOPPED">>, <<"STOPPED", "RUNNING">>,
     <<"DEAD", "RUNNING">>}
      \cup {<<a, "ZOMBIE">> : a \in LivingStates}
      \cup {<<a, "DEAD">> : a \in LivingStates \cup {"ZOMBIE"}}

\* C15 as stated: the state reported for a launched pid changes only along
\* unknown->running, running<->sleeping, running/sleeping->stopped,
\* stopped->running, running/sleeping->zombie, zombie->dead.
C15_OnlyClaimedTransitions ==
    [][\A p \in Pids :
         (proc[p].st # "none" /\ Reported(proc, p) # Reported(proc', p)) =>
           <<Reported(proc, p), Reported(proc', p)>> \in ClaimedEdges]_vars

\* C15 amended: the state reported for a pid changes only among the living
\* states along running<->sleeping, running<->unknown,
\* running/sleeping/unknown->stopped and stopped->running, from any living
\* state to zombie or straight to dead, from zombie to dead, and from dead
\* to running; zombie is left only to dead and dead only to running.
C15_ActualTransitions ==
    [][\A p \in Pids :
         Reported(proc, p) # Reported(proc', p) =>
           <<Reported(proc, p), Reported(proc', p)>> \in ActualEdges]_vars

\* C15 witness: a stopped child has a SIGKILL pending, so that it leaves
\* stopped for zombie or dead.
C15_Witness ==
    \E p \in Pids :
      proc[p].st \in Alive /\ proc[p].raw = "T" /\ "SIGKILL" \in proc[p].pend

\* C16: once rexos_get_process_info has reported dead for a launched pid,
\* every later call for that pid reports dead.
C16_DeadIsTerminal ==
    (res.op = "info" /\ res.err = REXOS_OK /\ res.deadBefore) =>
      res.info.state = "DEAD"

\* C17: rexos_get_process_info for a positive pid that has no entry in the
\* process table (never used, or reaped) returns success with state dead,
\* exit_code 0, cpu_time_ms 0, memory_kb 0 and the pid echoed.
C17_InfoOfAbsentPid ==
    (res.op = "info" /\ res.pid > 0 /\ res.has_info /\ ~res.entry) =>
      /\ res.err = REXOS_OK
      /\ res.written
      /\ res.info = [pid |-> res.pid, state |-> "DEAD", exit_code |-> 0,
                     start_time |-> 0, cpu_time_ms |-> 0, memory_kb |-> 0]

\* C17 witness: the call was made for a pid that was launched and reaped.
C17_Witness ==
    /\ res.op = "info" /\ res.pid > 0 /\ res.has_info /\ ~res.entry
    /\ res.launched

\* C17 witness: the call was made for a pid that was never used.
C17_WitnessNeverUsed ==
    /\ res.op = "info" /\ res.pid > 0 /\ res.has_info /\ ~res.entry
    /\ ~res.launched

\* C18: after rexos_launch_config_init, rexos_launch_config_add_arg with
\* valid arguments succeeds as long as fewer than REXOS_MAX_ARGS = 64 extra
\* arguments are stored: the 64th add succeeds, the 65th is the first to
\* fail.
C18_AddArgAccepts64 ==
    (res.op = "add_arg" /\ res.ptrsOk /\ res.memOk) =>
      ((res.ret = 0) <=> (res.arg_count < REXOS_MAX_ARGS))

\* C19: after rexos_launch_config_init, rexos_launch_config_add_env with
\* valid arguments succeeds exactly while fewer than REXOS_MAX_ENV = 128
\* entries are stored; env_count stays within 0..128 and is the number of
\* stored entries.
C19_AddEnvAccepts128 ==
    /\ config.env_count \in 0..REXOS_MAX_ENV
    /\ config.env_count = Len(config.env)
    /\ (res.op = "add_env" /\ res.ptrsOk) =>
          /\ (res.ret = 0) <=> (res.env_count < REXOS_MAX_ENV)
          /\ config.env_count = res.env_count + (IF res.ret = 0 THEN 1 ELSE 0)

\* C19 witness: an add_env with valid arguments was rejected with 128
\* entries stored.
C19_Witness ==
    /\ res.op = "add_env" /\ res.ptrsOk /\ res.ret # 0
    /\ config.env_count = REXOS_MAX_ENV

\* C20: a rejected rexos_launch_config_add_arg / _add_env leaves the config
\* as it was, and when it was rejected for capacity or for an invalid
\* argument, the reason of the rejection still holds afterwards, so that the
\* same call is rejected again.
C20_RejectedAddChangesNothing ==
    (res.op \in {"add_arg", "add_env"} /\ res.ret # 0) =>
      /\ res.ret = -1
      /\ res.same
      /\ config.arg_count = res.arg_count
      /\ config.env_count = res.env_count
      /\ res.memOk =>
            \/ ~res.ptrsOk
            \/ IF res.op = "add_arg" THEN ArgsFull(config) ELSE EnvFull(config)

\* C20 witness: an add_arg with valid arguments was rejected for capacity
\* on a config that holds environment entries too.
C20_Witness ==
    /\ res.op = "add_arg" /\ res.ret # 0 /\ res.ptrsOk /\ res.memOk
    /\ config.env_count > 0

\* C20 witness: an add_env was rejected for a NULL argument on a config
\* that holds entries.
C20_WitnessInvalid ==
    /\ res.op = "add_env" /\ res.ret # 0 /\ ~res.ptrsOk
    /\ config.env_count > 0 /\ config.arg_count > 0

\* C20 witness: an add_arg was rejected because strdup failed.
C20_WitnessNoMemory ==
    /\ res.op = "add_arg" /\ res.ret # 0 /\ res.ptrsOk /\ ~res.memOk
    /\ config.arg_count > 0

\* C21: rexos_launch_config_add_arg rejects an empty or NULL value with an
\* invalid-argument error and leaves the stored arguments as they were (so
\* no stored argument is empty), and the value it returns for that differs
\* from the one it returns when the capacity is reached.
C21_AddArgRejectsEmpty ==
    /\ \A i \in 1..Len(config.args) : config.args[i] # ""
    /\ (res.op = "add_arg" /\ ~res.ptrsOk) =>
          res.ret = REXOS_ERR_INVALID_ARG /\ res.same
    /\ (res.op = "add_arg" /\ res.ptrsOk /\ res.memOk /\ res.ret # 0) =>
          res.ret # REXOS_ERR_INVALID_ARG

\* C22: the environment overrides of a config keep unique keys: no two
\* stored entries carry the same key, whatever rexos_launch_config_add_env
\* was called with.
C22_EnvKeysUnique ==
    \A i, j \in 1..Len(config.env) :
        config.env[i][1] = config.env[j][1] => i = j

\* The first n code units of a string.
FirstUnits(str, n) == IF StrLen(str) <= n THEN str ELSE Prefix(str, n)

\* The entry a successful rexos_launch_config_add_env has just stored.
StoredEnv == config.env[Len(config.env)]

\* Every stored key and value, with its terminating zero, fits its buffer.
EnvFitsBuffers ==
    \A i \in 1..Len(config.env) :
        /\ StrLen(config.env[i][1]) + 1 <= ENV_KEY_SIZE
        /\ StrLen(config.env[i][2]) + 1 <= ENV_VALUE_SIZE

\* An add_env with valid arguments fails for capacity only, never for length.
AddEnvNeverFailsForLength ==
    (res.op = "add_env" /\ res.ptrsOk /\ res.ret # 0) =>
        res.env_count >= REXOS_MAX_ENV

\* C23 as stated: rexos_launch_config_add_env never fails because of
\* length; it stores the first 256 code units of the key and the first 1024
\* code units of the value, and every stored string is terminated within its
\* buffer.
C23_AddEnvKeeps256And1024 ==
    /\ AddEnvNeverFailsForLength
    /\ EnvFitsBuffers
    /\ (res.op = "add_env" /\ res.ret = 0) =>
          /\ StoredEnv[1] = FirstUnits(res.key, ENV_KEY_SIZE)
          /\ StoredEnv[2] = FirstUnits(res.value, ENV_VALUE_SIZE)

\* C23 amended: rexos_launch_config_add_env never fails because of length;
\* it stores the first 255 code units of the key and the first 1023 code
\* units of the value (one less than the buffer sizes, the last byte being
\* the terminating zero), and every stored string is terminated within its
\* buffer.
C23_AddEnvKeeps255And1023 ==
    /\ AddEnvNeverFailsForLength
    /\ EnvFitsBuffers
    /\ (res.op = "add_env" /\ res.ret = 0) =>
          /\ StoredEnv[1] = FirstUnits(res.key, ENV_KEY_SIZE - 1)
          /\ StoredEnv[2] = FirstUnits(res.value, ENV_VALUE_SIZE - 1)

\* C23 witness: a key of 256 and a value of 1024 characters were added
\* successfully and stored cut.
C23_Witness ==
    /\ res.op = "add_env" /\ res.ret = 0
    /\ res.key = LongKey /\ res.value = LongValue
    /\ StoredEnv = <<CutKey, CutValue>>

\* C23 witness: a key of 255 and a value of 1023 characters were added and
\* stored whole.
C23_WitnessJustFits ==
    /\ res.op = "add_env" /\ res.ret = 0
    /\ res.key = CutKey /\ res.value = CutValue
    /\ StoredEnv = <<CutKey, CutValue>>

\* build_argv was applied and every allocation succeeded.
Built == res.op = "build_argv" /\ res.mem = AllocOk

\* <<str>> iff the path or string is set.
IfSet(str) == IF str # "" THEN <<str>> ELSE <<>>

\* C24: for the retroarch type the built vector is exactly the executable,
\* "-L" core iff a core is set, "--config" path iff a config path is set,
\* "--fullscreen" iff the flag is set, "-v" iff verbose, "-e" slot (in
\* decimal) iff a save-state slot is specified, the extra arguments in
\* order, the ROM path iff set.
C24_RetroArchArgv ==
    (Built /\ config.type = "REXOS_EMU_RETROARCH") =>
      ExecVector(res.built.argv) =
        <<config.executable>>
        \o (IF config.core_path # "" THEN <<"-L", config.core_path>> ELSE <<>>)
        \o (IF config.config_path # ""
            THEN <<"--config", config.config_path>> ELSE <<>>)
        \o (IF config.fullscreen THEN <<"--fullscreen">> ELSE <<>>)
        \o (IF config.verbose THEN <<"-v">> ELSE <<>>)
        \o (IF config.load_state_slot >= 0
            THEN <<"-e", ToString(config.load_state_slot)>> ELSE <<>>)
        \o config.args
        \o IfSet(config.rom_path)

\* C25: for every type other than retroarch the built vector is exactly the
\* executable, the extra arguments in order, the ROM path iff set.
C25_OtherTypesArgv ==
    (Built /\ config.type # "REXOS_EMU_RETROARCH") =>
      ExecVector(res.built.argv) =
        <<config.executable>> \o config.args \o IfSet(config.rom_path)

\* C25 witness: a vector was built for a standalone emulator whose config
\* carries a core, a config path, both flags, a slot, two extra arguments
\* and a ROM.
C25_Witness ==
    /\ Built /\ config.type = "REXOS_EMU_STANDALONE"
    /\ config.core_path # "" /\ config.config_path # ""
    /\ config.fullscreen /\ config.verbose /\ config.load_state_slot >= 0
    /\ res.built.argv = <<"/bin/retroarch", "--menu", "-v", "/roms/game.sfc">>

\* C26: rexos_launch_config_init leaves the defaults, whatever the config
\* held before: type retroarch, fullscreen on, verbose off, 32-bit off,
\* slot -1, affinity -1, nice 0, realtime off, no extra argument, no
\* environment entry, the four paths empty.
C26_InitYieldsDefaults ==
    (res.op = "config_init" /\ res.ptrsOk) =>
      config = [type |-> "REXOS_EMU_RETROARCH", fullscreen |-> TRUE,
                verbose |-> FALSE, use_32bit |-> FALSE,
                load_state_slot |-> -1, cpu_affinity |-> -1,
                nice_value |-> 0, realtime_priority |-> FALSE,
                arg_count |-> 0, args |-> <<>>, env_count |-> 0, env |-> <<>>,
                executable |-> "", rom_path |-> "", core_path |-> "",
                config_path |-> ""]

\* C26 witness: rexos_launch_config_init was applied to a config that held
\* extra arguments and differed from the defaults.
C26_Witness ==
    /\ res.op = "config_init" /\ res.ptrsOk
    /\ res.arg_count = 2 /\ ~res.same

\* A rexos_launch has returned after calling build_argv.
LaunchBuilt ==
    /\ res.op = "launch"
    /\ res.err \notin {REXOS_ERR_INVALID_ARG, REXOS_ERR_NOT_FOUND}

\* C28: rexos_launch returns REXOS_ERR_MEMORY when the allocation of the
\* argument vector, the array or any of its strings, fails, and
\* REXOS_ERR_FORK_FAILED when fork fails; in both cases the call created no
\* child, left *pid unwritten and released the whole argument vector.
C28_LaunchAllocationAndForkErrors ==
    LaunchBuilt =>
      /\ res.mem # AllocOk => res.err = REXOS_ERR_MEMORY
      /\ res.err \in {REXOS_ERR_MEMORY, REXOS_ERR_FORK_FAILED} =>
            /\ res.created = 0
            /\ ~res.pid_written
            /\ res.leaked = 0
      /\ res.err = REXOS_OK => res.created = 1

\* C30: the first rexos_get_perf_stats call, before which no sample of the
\* counters exists, reports cpu_usage_percent = 0; every later call reports
\* the busy share of the counter deltas since the previous sample.
C30_FirstPerfSampleIsZero ==
    (res.op = "perf" /\ res.err = REXOS_OK) =>
      /\ ~res.hadSample => res.cpu_usage_percent = 0
      /\ (res.hadSample /\ res.read /\ res.total > 0) =>
            res.cpu_usage_percent = (res.busy * 100) \div res.total

\* The calls of a sequence noted for a child, without their outcomes.
CallsOf(made) ==
    [k \in 1..Len(made) |-> <<made[k].call, made[k].args>>]

\* The setup the claim lists for a config, in its order.
ClaimedSetup(cfg) ==
    (IF cfg.nice_value # 0
     THEN <<<<"setpriority", <<ToString(cfg.nice_value)>>>>>> ELSE <<>>)
    \o (IF cfg.cpu_affinity # -1
        THEN <<<<"sched_setaffinity", <<ToString(cfg.cpu_affinity)>>>>>>
        ELSE <<>>)
    \o (IF cfg.realtime_priority
        THEN <<<<"sched_setscheduler", <<"SCHED_FIFO", "max">>>>>> ELSE <<>>)
    \o [k \in 1..Len(cfg.env) |-> <<"setenv", cfg.env[k]>>]
    \o <<<<"setsid", <<>>>>, <<"close", <<"STDIN_FILENO">>>>,
         <<"open", <<"/dev/null", "O_RDONLY">>>>>>

\* seq is the beginning of whole.
IsPrefix(seq, whole) ==
    Len(seq) <= Len(whole) /\ seq = SubSeq(whole, 1, Len(seq))

\* C27: the child makes its setup calls in the fixed order (nice value if
\* not 0, affinity if set, realtime scheduling if requested, the environment
\* overrides in insertion order, new session, stdin closed and reopened on
\* /dev/null); all of them are made when execvp is attempted, none is made
\* without a child, and whatever calls failed, the child that made the last
\* one is at its execvp.
C27_ChildSetupOrder ==
    \A c \in Pids :
      /\ proc[c].st = "none" => child[c].calls = <<>>
      /\ IsPrefix(CallsOf(child[c].calls), ClaimedSetup(config))
      /\ proc[c].st \notin {"none", "forked"} =>
            CallsOf(child[c].calls) = ClaimedSetup(config)
      /\ (proc[c].st = "forked"
          /\ Len(child[c].calls) = Len(ClaimedSetup(config))
          /\ child[c].pc \notin {"setsid", "close", "open"}) =>
            ENABLED ChildExecAfterSetup(c)

\* C27 witness: execvp was attempted, and replaced the image, after a setup
\* with every optional step and two environment entries, in which the
\* realtime scheduling call had failed.
C27_Witness ==
    \E c \in Pids :
      /\ proc[c].st = "image"
      /\ config.nice_value # 0 /\ config.cpu_affinity >= 0
      /\ config.realtime_priority /\ config.env_count = 2
      /\ \E k \in 1..Len(child[c].calls) :
            child[c].calls[k].call = "sched_setscheduler" /\ ~child[c].calls[k].ok

\* A step of a call of the running thread.
ThreadStep == cur' = cur /\ (pc' # pc \/ res' # res)

\* What the thread that runs was returned is what a thread that supervises
\* its process alone is returned: it follows from the entry of its own
\* process only.
ResultOfOwnProcess ==
    /\ res.op \in {"signal", "wait", "info"} => res.pid = OwnPid(cur)
    /\ res.op = "signal" =>
          res.err = IF res.stBefore \in Alive \cup {"zombie"}
                    THEN REXOS_OK ELSE REXOS_ERR_NOT_FOUND
    /\ res.op = "wait" =>
          /\ res.err \in {REXOS_OK, REXOS_ERR_TIMEOUT, REXOS_ERR_IO}
          /\ res.err = REXOS_OK =>
                /\ res.stAtReturn = "zombie"
                /\ proc[res.pid].st = "reaped"
                /\ res.out_written => res.out_value = proc[res.pid].tcode
          /\ res.err = REXOS_ERR_TIMEOUT =>
                res.timeout_ms >= 0 /\ res.stAtReturn # "reaped"
          /\ res.err = REXOS_ERR_IO => res.prevOK /\ res.stAtReturn = "reaped"
    /\ (res.op = "info" /\ res.has_info) =>
          /\ res.err = REXOS_OK
          /\ ~res.entry <=> res.info.state = "DEAD"
          /\ ~res.entry => proc[res.pid].st = "reaped"

\* C29: rexos_wait, rexos_signal and rexos_get_process_info share no mutable
\* state.  When two threads call them for different pids, a step of one
\* call changes neither the entry of another process, nor what the other
\* thread holds, nor g_initialized or the SIGCHLD disposition, under every
\* interleaving; and each call returns what follows from its own process.
C29_CallsForDifferentPidsAreIndependent ==
    /\ [][ThreadStep =>
            /\ \A p \in Pids \ {OwnPid(cur)} : proc'[p] = proc[p]
            /\ saved' = saved
            /\ UNCHANGED <<g_initialized, sigchld>>]_vars
    /\ []ResultOfOwnProcess

\* C29 witness: a thread's rexos_wait returned REXOS_OK for its process
\* while the other thread is blocked in the waitpid of rexos_wait for its
\* own, living process.
C29_Witness ==
    /\ res.op = "wait" /\ res.err = REXOS_OK
    /\ saved.pc = "wait_final" /\ saved.frame.timeout_ms < 0
    /\ proc[OwnPid(cur)].st = "reaped"
    /\ \E p \in Pids \ {OwnPid(cur)} : proc[p].st = "image"

\* C29 witness: a thread's rexos_kill returned while the other thread was
\* between fopen and fscanf of its rexos_get_process_info.
C29_WitnessKillDuringInfo ==
    /\ res.op = "signal" /\ res.err = REXOS_OK
    /\ saved.pc = "info_read"

\* C37: for the retroarch type build_argv emits "-e" exactly when
\* load_state_slot >= 0, and the string that follows "-e" is the complete
\* decimal representation of the slot.
C37_SlotIsCompleteDecimal ==
    (Built /\ config.type = "REXOS_EMU_RETROARCH") =>
      LET v == ExecVector(res.built.argv)
          at == {k \in 1..Len(v) : v[k] = "-e"}
      IN  /\ (at # {}) <=> (config.load_state_slot >= 0)
          /\ \A k \in at :
               k < Len(v) /\ v[k + 1] = ToString(config.load_state_slot)

\* C35: for a config filled in through rexos_launch_config_init, add_arg
\* and field settings, build_argv (its allocations succeeding) emits every
\* one of the arg_count extra arguments, in order, after the emulator's own
\* arguments; the ROM path and the terminating NULL are written at indices
\* below the 32 + arg_count entries allocated; the vector ends at that NULL.
C35_AllExtraArgsEmittedInBounds ==
    Built =>
      LET b == res.built
          head == 1 + Len(EmulatorArgs(config))
      IN  /\ b.max_args = 32 + config.arg_count
          /\ b.argc = head + config.arg_count + Len(IfSet(config.rom_path))
          /\ b.argc < b.max_args
          /\ Len(b.argv) = b.argc
          /\ SubSeq(b.argv, head + 1, head + config.arg_count) = config.args
          /\ \A k \in 1..b.argc : b.argv[k] # NULL
          /\ config.rom_path # "" => b.argv[b.argc] = config.rom_path

\* C35 witness: a vector was built for a RetroArch config with every option
\* set, a ROM and as many extra arguments as add_arg accepts.
C35_Witness ==
    /\ Built /\ config.type = "REXOS_EMU_RETROARCH"
    /\ config.arg_count = REXOS_MAX_ARGS - 1
    /\ Len(EmulatorArgs(config)) = 8
    /\ config.rom_path # ""
    /\ res.built.argc = 1 + 8 + (REXOS_MAX_ARGS - 1) + 1

\* C36: a rexos_signal, rexos_stop or rexos_kill with pid <= 0 returns
\* InvalidArgument without calling kill() and changes no process; and a
\* call that does signal changes the entry of the one process it names, a
\* positive pid, never a group of processes.
C36_NonPositivePidSignalsNothing ==
    [][(res'.op = "signal" /\ res' # res) =>
         /\ res'.pid <= 0 =>
               /\ res'.err = REXOS_ERR_INVALID_ARG
               /\ res'.errno = "none"
               /\ proc' = proc
         /\ \A p \in Pids :
               proc'[p] # proc[p] => (res'.pid = p /\ p > 0)]_vars

\* C36 witness: rexos_kill(-1) returned InvalidArgument while a child was
\* alive, which is still as it was.
C36_Witness ==
    /\ res.op = "signal" /\ res.via = "kill" /\ res.pid = -1
    /\ res.err = REXOS_ERR_INVALID_ARG
    /\ \E p \in Pids : proc[p].st \in Alive /\ proc[p].pend = {}

\* C36 witness: rexos_stop(0) returned InvalidArgument while a child was
\* alive.
C36_WitnessGroup ==
    /\ res.op = "signal" /\ res.via = "stop" /\ res.pid = 0
    /\ res.err = REXOS_ERR_INVALID_ARG
    /\ \E p \in Pids : proc[p].st \in Alive /\ proc[p].pend = {}

\* A rexos_wait that blocks, or whose positive timeout leaves room for one
\* more poll after the child terminated, has returned for a child not
\* reported before that exited by itself.
WaitedForExit ==
    /\ WaitDone /\ ~res.prevOK
    /\ proc[res.pid].tkind = "exited"
    /\ \/ res.timeout_ms < 0
       \/ /\ res.timeout_ms > 0
          /\ res.deadAt # -1
          /\ res.deadAt + POLL_INTERVAL_MS < res.timeout_ms

\* C32: whether or not rexos_init was called before the launch, rexos_wait
\* in blocking mode or with a sufficient positive timeout on a launched
\* child that exits with code c returns success with exit_code = c.
C32_InitDoesNotChangeWait ==
    WaitedForExit =>
      /\ res.err = REXOS_OK
      /\ ExitReported(res, proc[res.pid].tcode)

\* C33: whenever rexos_wait returns success and was given an exit_code
\* output, the output was written, also when the process was ended by a
\* signal (after rexos_stop or rexos_kill for instance): the caller does not
\* read back what the variable held before the call.
C33_SuccessfulWaitWritesExitCode ==
    (WaitDone /\ res.err = REXOS_OK /\ res.has_out) => res.out_written

\* The state C34 gives for a raw scheduling state code.
ClaimedState(letter) ==
    IF letter = "R" THEN "RUNNING"
    ELSE IF letter = "S" THEN "SLEEPING"
    ELSE IF letter = "T" THEN "STOPPED"
    ELSE IF letter = "Z" THEN "ZOMBIE"
    ELSE "UNKNOWN"

\* This step is a successful return of rexos_get_process_info.
InfoReturns ==
    /\ res'.op = "info" /\ res'.err = REXOS_OK
    /\ pc = "info_read" \/ res' # res

\* What C34 says of the state reported by this step for pid p.
ClaimedReport(p, state) ==
    /\ HasEntry(proc, p) => state = ClaimedState(StatLetter(proc[p]))
    /\ (p \in Pids /\ proc[p].tkind # "none" /\ ~proc[p].okSeen) =>
          state = "ZOMBIE"
    /\ (p \in Pids /\ proc[p].okSeen) => state = "DEAD"

\* C34: rexos_get_process_info reports a present record by its raw state
\* code, R as running, S as sleeping, T as stopped, Z as zombie and every
\* other code as unknown, so never as dead; a child that has terminated and
\* was not waited for is reported as zombie, and as dead once a rexos_wait
\* on it has succeeded.
C34_ReportedStateFollowsRecord ==
    [][InfoReturns => ClaimedReport(res'.pid, res'.info.state)]_vars

\* A rexos_get_perf_stats has returned a usage computed from a reading.
PerfSampled == res.op = "perf" /\ res.err = REXOS_OK /\ res.read

\* C31: as long as no two rexos_get_perf_stats calls have overlapped, every
\* call takes its deltas against one complete earlier sample (a reading an
\* earlier call took, or the initial zeros) and leaves its own reading as
\* the previous sample; when two calls interleave, a call can take its
\* deltas against fields of different samples or leave a previous sample
\* that mixes two readings (the witnesses).
C31_SerializedCallsUseOneSample ==
    (PerfSampled /\ ~res.raced) =>
      /\ res.used \in res.before
      /\ res.stored = res.reading
      /\ \A f \in CpuFields : res.delta[f] = res.reading[f] - res.used[f]

\* C31 witness: two calls interleaved and one of them took its deltas
\* against previous-sample fields that belong to no single reading taken.
C31_Witness ==
    /\ PerfSampled /\ res.raced
    /\ res.used \notin taken

\* C31 witness: two calls interleaved and left a previous sample that is
\* no reading taken.
C31_WitnessStoredMix ==
    /\ PerfSampled /\ res.raced
    /\ pc = "idle" /\ saved.pc = "idle"
    /\ prev \notin taken

\* C31 witness: calls that did not overlap, made by both threads, the
\* later one against the sample of the earlier.
C31_WitnessSerialized ==
    /\ PerfSampled /\ ~res.raced
    /\ saved.res.op = "perf" /\ saved.res.err = REXOS_OK /\ saved.res.read
    /\ res.used = saved.res.reading
    /\ res.reading # res.used

\* A thread is inside rexos_register_hotkey_callback.
Registering(t) ==
    hk[t].pc \in {"register_lock", "register_store", "deadlocked"}

\* The callback runs in thread t, or has called into the library.
InCallback(t) ==
    hk[t].pc = "callback" \/ (Registering(t) /\ hk[t].inside)

\* C38: the callback is invoked only for the press of a button that has a
\* hotkey while Select is held, and every rexos_register_hotkey_callback,
\* called by the callback while it runs or by any thread meanwhile,
\* eventually returns.
C38_HotkeyDispatchNeverDeadlocks ==
    /\ [](\A t \in ThreadIds :
            InCallback(t) =>
              /\ g_input_state.modifier_pressed
              /\ hk[t].code \in g_input_state.buttons
              /\ hk[t].action # "none")
    /\ \A t \in ThreadIds : Registering(t) ~> ~Registering(t)

====
